---- MODULE Spec2Model ----
(***************************************************************************)
(* Model of microserveur/command_parser.py, the free-text trade command    *)
(* parser, and of microserveur/main.py, the HTTP service that parses a     *)
(* command with its own parser and submits the order to the exchange.  A   *)
(* Python str is the sequence of the code points of its characters, an     *)
(* Optional value is a sequence of length 0 (None) or 1, a Decimal is the  *)
(* triple (sign, coefficient digits, exponent) that the decimal module     *)
(* keeps.  One call of parse_trade_command is a run of the state machine,  *)
(* one action per block of the function between two raise points; one      *)
(* POST /orders is a run of the actions of place_order.                    *)
(***************************************************************************)
EXTENDS Integers, Sequences, FiniteSets, TLC

VARIABLES command, pc, raw_tokens, keyword_tokens, side, order_type, symbol,
          numbers_with_indices, quantity, price, used_number_indices,
          callback_value, activation_value, callback_pos, activation_pos,
          result, error,
          testnet, parsed, client, order_payload, calls, outcome, response

\* the locals of command_parser.parse_trade_command
parser_vars ==
    <<raw_tokens, keyword_tokens, side, order_type, symbol,
      numbers_with_indices, quantity, price, used_number_indices,
      callback_value, activation_value, callback_pos, activation_pos,
      result, error>>

\* the request's testnet flag and the locals of main.place_order, with the
\* calls made on the exchange client, in order
http_vars == <<testnet, parsed, client, order_payload, calls, outcome, response>>

vars == <<command, pc, raw_tokens, keyword_tokens, side, order_type, symbol,
          numbers_with_indices, quantity, price, used_number_indices,
          callback_value, activation_value, callback_pos, activation_pos,
          result, error,
          testnet, parsed, client, order_payload, calls, outcome, response>>

None == <<>>
Some(v) == <<v>>

----------------------------------------------------------------------------
(* Characters                                                              *)

\* A character is its code point, ord(c), and a str is the sequence of the
\* code points of its characters.  A str of printable ASCII characters is
\* written by its text: Str("buy") is <<98, 117, 121>> and Ord(".") is 46.
\* ASCII holds the characters 32 to 95 and 97 to 126 in order; the grave
\* accent, 96, cannot stand in a string and is written by its number.
ASCII ==
    " !\"#$%&'()*+,-./0123456789:;<=>?@ABCDEFGHIJKLMNOPQRSTUVWXYZ[\\]^_abcdefghijklmnopqrstuvwxyz{|}~"
ORD ==
    [c \in {SubSeq(ASCII, i, i) : i \in 1..Len(ASCII)} |->
        LET k == CHOOSE i \in 1..Len(ASCII) : SubSeq(ASCII, i, i) = c
        IN  IF k <= 64 THEN 31 + k ELSE 32 + k]
Ord(c) == ORD[c]
Str(text) == [i \in 1..Len(text) |-> ORD[SubSeq(text, i, i)]]

DIGITS == Str("0123456789")

\* The tables of the Unicode character database that the str methods, the
\* re module, unicodedata and Decimal() read (Unicode 14.0.0), by code
\* point.  A table of ranges holds the pairs <<first, last>> in increasing
\* order, a table of entries the pairs <<character, str>> in increasing
\* order of the character.  The tables of letters leave ASCII out.

\* str.isspace: the characters on which str.split() and str.strip() cut and
\* that Decimal() strips
WHITESPACE ==
    {
    9, 10, 11, 12, 13, 28, 29, 30, 31, 32, 133, 160, 5760, 8192, 8193, 8194,
    8195, 8196, 8197, 8198, 8199, 8200, 8201, 8202, 8232, 8233, 8239, 8287,
    12288
    }

\* the digit zero of each run of ten decimal digits (category Nd): the
\* class \d of a str pattern, and the digits that Decimal() reads
DECIMAL_ZEROS ==
    <<
    48, 1632, 1776, 1984, 2406, 2534, 2662, 2790, 2918, 3046, 3174, 3302,
    3430, 3558, 3664, 3792, 3872, 4160, 4240, 6112, 6160, 6470, 6608, 6784,
    6800, 6992, 7088, 7232, 7248, 42528, 43216, 43264, 43472, 43504, 43600,
    44016, 65296, 66720, 68912, 69734, 69872, 69942, 70096, 70384, 70736,
    70864, 71248, 71360, 71472, 71904, 72016, 72784, 73040, 73120, 92768,
    92864, 93008, 120782, 120792, 120802, 120812, 120822, 123200, 123632,
    125264, 130032
    >>

\* str.isalpha
ALPHA_RANGES ==
    <<
    <<170, 170>>, <<181, 181>>, <<186, 186>>, <<192, 214>>, <<216, 246>>,
    <<248, 705>>, <<710, 721>>, <<736, 740>>, <<748, 748>>, <<750, 750>>,
    <<880, 884>>, <<886, 887>>, <<890, 893>>, <<895, 895>>, <<902, 902>>,
    <<904, 906>>, <<908, 908>>, <<910, 929>>, <<931, 1013>>, <<1015, 1153>>,
    <<1162, 1327>>, <<1329, 1366>>, <<1369, 1369>>, <<1376, 1416>>,
    <<1488, 1514>>, <<1519, 1522>>, <<1568, 1610>>, <<1646, 1647>>,
    <<1649, 1747>>, <<1749, 1749>>, <<1765, 1766>>, <<1774, 1775>>,
    <<1786, 1788>>, <<1791, 1791>>, <<1808, 1808>>, <<1810, 1839>>,
    <<1869, 1957>>, <<1969, 1969>>, <<1994, 2026>>, <<2036, 2037>>,
    <<2042, 2042>>, <<2048, 2069>>, <<2074, 2074>>, <<2084, 2084>>,
    <<2088, 2088>>, <<2112, 2136>>, <<2144, 2154>>, <<2160, 2183>>,
    <<2185, 2190>>, <<2208, 2249>>, <<2308, 2361>>, <<2365, 2365>>,
    <<2384, 2384>>, <<2392, 2401>>, <<2417, 2432>>, <<2437, 2444>>,
    <<2447, 2448>>, <<2451, 2472>>, <<2474, 2480>>, <<2482, 2482>>,
    <<2486, 2489>>, <<2493, 2493>>, <<2510, 2510>>, <<2524, 2525>>,
    <<2527, 2529>>, <<2544, 2545>>, <<2556, 2556>>, <<2565, 2570>>,
    <<2575, 2576>>, <<2579, 2600>>, <<2602, 2608>>, <<2610, 2611>>,
    <<2613, 2614>>, <<2616, 2617>>, <<2649, 2652>>, <<2654, 2654>>,
    <<2674, 2676>>, <<2693, 2701>>, <<2703, 2705>>, <<2707, 2728>>,
    <<2730, 2736>>, <<2738, 2739>>, <<2741, 2745>>, <<2749, 2749>>,
    <<2768, 2768>>, <<2784, 2785>>, <<2809, 2809>>, <<2821, 2828>>,
    <<2831, 2832>>, <<2835, 2856>>, <<2858, 2864>>, <<2866, 2867>>,
    <<2869, 2873>>, <<2877, 2877>>, <<2908, 2909>>, <<2911, 2913>>,
    <<2929, 2929>>, <<2947, 2947>>, <<2949, 2954>>, <<2958, 2960>>,
    <<2962, 2965>>, <<2969, 2970>>, <<2972, 2972>>, <<2974, 2975>>,
    <<2979, 2980>>, <<2984, 2986>>, <<2990, 3001>>, <<3024, 3024>>,
    <<3077, 3084>>, <<3086, 3088>>, <<3090, 3112>>, <<3114, 3129>>,
    <<3133, 3133>>, <<3160, 3162>>, <<3165, 3165>>, <<3168, 3169>>,
    <<3200, 3200>>, <<3205, 3212>>, <<3214, 3216>>, <<3218, 3240>>,
    <<3242, 3251>>, <<3253, 3257>>, <<3261, 3261>>, <<3293, 3294>>,
    <<3296, 3297>>, <<3313, 3314>>, <<3332, 3340>>, <<3342, 3344>>,
    <<3346, 3386>>, <<3389, 3389>>, <<3406, 3406>>, <<3412, 3414>>,
    <<3423, 3425>>, <<3450, 3455>>, <<3461, 3478>>, <<3482, 3505>>,
    <<3507, 3515>>, <<3517, 3517>>, <<3520, 3526>>, <<3585, 3632>>,
    <<3634, 3635>>, <<3648, 3654>>, <<3713, 3714>>, <<3716, 3716>>,
    <<3718, 3722>>, <<3724, 3747>>, <<3749, 3749>>, <<3751, 3760>>,
    <<3762, 3763>>, <<3773, 3773>>, <<3776, 3780>>, <<3782, 3782>>,
    <<3804, 3807>>, <<3840, 3840>>, <<3904, 3911>>, <<3913, 3948>>,
    <<3976, 3980>>, <<4096, 4138>>, <<4159, 4159>>, <<4176, 4181>>,
    <<4186, 4189>>, <<4193, 4193>>, <<4197, 4198>>, <<4206, 4208>>,
    <<4213, 4225>>, <<4238, 4238>>, <<4256, 4293>>, <<4295, 4295>>,
    <<4301, 4301>>, <<4304, 4346>>, <<4348, 4680>>, <<4682, 4685>>,
    <<4688, 4694>>, <<4696, 4696>>, <<4698, 4701>>, <<4704, 4744>>,
    <<4746, 4749>>, <<4752, 4784>>, <<4786, 4789>>, <<4792, 4798>>,
    <<4800, 4800>>, <<4802, 4805>>, <<4808, 4822>>, <<4824, 4880>>,
    <<4882, 4885>>, <<4888, 4954>>, <<4992, 5007>>, <<5024, 5109>>,
    <<5112, 5117>>, <<5121, 5740>>, <<5743, 5759>>, <<5761, 5786>>,
    <<5792, 5866>>, <<5873, 5880>>, <<5888, 5905>>, <<5919, 5937>>,
    <<5952, 5969>>, <<5984, 5996>>, <<5998, 6000>>, <<6016, 6067>>,
    <<6103, 6103>>, <<6108, 6108>>, <<6176, 6264>>, <<6272, 6276>>,
    <<6279, 6312>>, <<6314, 6314>>, <<6320, 6389>>, <<6400, 6430>>,
    <<6480, 6509>>, <<6512, 6516>>, <<6528, 6571>>, <<6576, 6601>>,
    <<6656, 6678>>, <<6688, 6740>>, <<6823, 6823>>, <<6917, 6963>>,
    <<6981, 6988>>, <<7043, 7072>>, <<7086, 7087>>, <<7098, 7141>>,
    <<7168, 7203>>, <<7245, 7247>>, <<7258, 7293>>, <<7296, 7304>>,
    <<7312, 7354>>, <<7357, 7359>>, <<7401, 7404>>, <<7406, 7411>>,
    <<7413, 7414>>, <<7418, 7418>>, <<7424, 7615>>, <<7680, 7957>>,
    <<7960, 7965>>, <<7968, 8005>>, <<8008, 8013>>, <<8016, 8023>>,
    <<8025, 8025>>, <<8027, 8027>>, <<8029, 8029>>, <<8031, 8061>>,
    <<8064, 8116>>, <<8118, 8124>>, <<8126, 8126>>, <<8130, 8132>>,
    <<8134, 8140>>, <<8144, 8147>>, <<8150, 8155>>, <<8160, 8172>>,
    <<8178, 8180>>, <<8182, 8188>>, <<8305, 8305>>, <<8319, 8319>>,
    <<8336, 8348>>, <<8450, 8450>>, <<8455, 8455>>, <<8458, 8467>>,
    <<8469, 8469>>, <<8473, 8477>>, <<8484, 8484>>, <<8486, 8486>>,
    <<8488, 8488>>, <<8490, 8493>>, <<8495, 8505>>, <<8508, 8511>>,
    <<8517, 8521>>, <<8526, 8526>>, <<8579, 8580>>, <<11264, 11492>>,
    <<11499, 11502>>, <<11506, 11507>>, <<11520, 11557>>, <<11559, 11559>>,
    <<11565, 11565>>, <<11568, 11623>>, <<11631, 11631>>, <<11648, 11670>>,
    <<11680, 11686>>, <<11688, 11694>>, <<11696, 11702>>, <<11704, 11710>>,
    <<11712, 11718>>, <<11720, 11726>>, <<11728, 11734>>, <<11736, 11742>>,
    <<11823, 11823>>, <<12293, 12294>>, <<12337, 12341>>, <<12347, 12348>>,
    <<12353, 12438>>, <<12445, 12447>>, <<12449, 12538>>, <<12540, 12543>>,
    <<12549, 12591>>, <<12593, 12686>>, <<12704, 12735>>, <<12784, 12799>>,
    <<13312, 19903>>, <<19968, 42124>>, <<42192, 42237>>, <<42240, 42508>>,
    <<42512, 42527>>, <<42538, 42539>>, <<42560, 42606>>, <<42623, 42653>>,
    <<42656, 42725>>, <<42775, 42783>>, <<42786, 42888>>, <<42891, 42954>>,
    <<42960, 42961>>, <<42963, 42963>>, <<42965, 42969>>, <<42994, 43009>>,
    <<43011, 43013>>, <<43015, 43018>>, <<43020, 43042>>, <<43072, 43123>>,
    <<43138, 43187>>, <<43250, 43255>>, <<43259, 43259>>, <<43261, 43262>>,
    <<43274, 43301>>, <<43312, 43334>>, <<43360, 43388>>, <<43396, 43442>>,
    <<43471, 43471>>, <<43488, 43492>>, <<43494, 43503>>, <<43514, 43518>>,
    <<43520, 43560>>, <<43584, 43586>>, <<43588, 43595>>, <<43616, 43638>>,
    <<43642, 43642>>, <<43646, 43695>>, <<43697, 43697>>, <<43701, 43702>>,
    <<43705, 43709>>, <<43712, 43712>>, <<43714, 43714>>, <<43739, 43741>>,
    <<43744, 43754>>, <<43762, 43764>>, <<43777, 43782>>, <<43785, 43790>>,
    <<43793, 43798>>, <<43808, 43814>>, <<43816, 43822>>, <<43824, 43866>>,
    <<43868, 43881>>, <<43888, 44002>>, <<44032, 55203>>, <<55216, 55238>>,
    <<55243, 55291>>, <<63744, 64109>>, <<64112, 64217>>, <<64256, 64262>>,
    <<64275, 64279>>, <<64285, 64285>>, <<64287, 64296>>, <<64298, 64310>>,
    <<64312, 64316>>, <<64318, 64318>>, <<64320, 64321>>, <<64323, 64324>>,
    <<64326, 64433>>, <<64467, 64829>>, <<64848, 64911>>, <<64914, 64967>>,
    <<65008, 65019>>, <<65136, 65140>>, <<65142, 65276>>, <<65313, 65338>>,
    <<65345, 65370>>, <<65382, 65470>>, <<65474, 65479>>, <<65482, 65487>>,
    <<65490, 65495>>, <<65498, 65500>>, <<65536, 65547>>, <<65549, 65574>>,
    <<65576, 65594>>, <<65596, 65597>>, <<65599, 65613>>, <<65616, 65629>>,
    <<65664, 65786>>, <<66176, 66204>>, <<66208, 66256>>, <<66304, 66335>>,
    <<66349, 66368>>, <<66370, 66377>>, <<66384, 66421>>, <<66432, 66461>>,
    <<66464, 66499>>, <<66504, 66511>>, <<66560, 66717>>, <<66736, 66771>>,
    <<66776, 66811>>, <<66816, 66855>>, <<66864, 66915>>, <<66928, 66938>>,
    <<66940, 66954>>, <<66956, 66962>>, <<66964, 66965>>, <<66967, 66977>>,
    <<66979, 66993>>, <<66995, 67001>>, <<67003, 67004>>, <<67072, 67382>>,
    <<67392, 67413>>, <<67424, 67431>>, <<67456, 67461>>, <<67463, 67504>>,
    <<67506, 67514>>, <<67584, 67589>>, <<67592, 67592>>, <<67594, 67637>>,
    <<67639, 67640>>, <<67644, 67644>>, <<67647, 67669>>, <<67680, 67702>>,
    <<67712, 67742>>, <<67808, 67826>>, <<67828, 67829>>, <<67840, 67861>>,
    <<67872, 67897>>, <<67968, 68023>>, <<68030, 68031>>, <<68096, 68096>>,
    <<68112, 68115>>, <<68117, 68119>>, <<68121, 68149>>, <<68192, 68220>>,
    <<68224, 68252>>, <<68288, 68295>>, <<68297, 68324>>, <<68352, 68405>>,
    <<68416, 68437>>, <<68448, 68466>>, <<68480, 68497>>, <<68608, 68680>>,
    <<68736, 68786>>, <<68800, 68850>>, <<68864, 68899>>, <<69248, 69289>>,
    <<69296, 69297>>, <<69376, 69404>>, <<69415, 69415>>, <<69424, 69445>>,
    <<69488, 69505>>, <<69552, 69572>>, <<69600, 69622>>, <<69635, 69687>>,
    <<69745, 69746>>, <<69749, 69749>>, <<69763, 69807>>, <<69840, 69864>>,
    <<69891, 69926>>, <<69956, 69956>>, <<69959, 69959>>, <<69968, 70002>>,
    <<70006, 70006>>, <<70019, 70066>>, <<70081, 70084>>, <<70106, 70106>>,
    <<70108, 70108>>, <<70144, 70161>>, <<70163, 70187>>, <<70272, 70278>>,
    <<70280, 70280>>, <<70282, 70285>>, <<70287, 70301>>, <<70303, 70312>>,
    <<70320, 70366>>, <<70405, 70412>>, <<70415, 70416>>, <<70419, 70440>>,
    <<70442, 70448>>, <<70450, 70451>>, <<70453, 70457>>, <<70461, 70461>>,
    <<70480, 70480>>, <<70493, 70497>>, <<70656, 70708>>, <<70727, 70730>>,
    <<70751, 70753>>, <<70784, 70831>>, <<70852, 70853>>, <<70855, 70855>>,
    <<71040, 71086>>, <<71128, 71131>>, <<71168, 71215>>, <<71236, 71236>>,
    <<71296, 71338>>, <<71352, 71352>>, <<71424, 71450>>, <<71488, 71494>>,
    <<71680, 71723>>, <<71840, 71903>>, <<71935, 71942>>, <<71945, 71945>>,
    <<71948, 71955>>, <<71957, 71958>>, <<71960, 71983>>, <<71999, 71999>>,
    <<72001, 72001>>, <<72096, 72103>>, <<72106, 72144>>, <<72161, 72161>>,
    <<72163, 72163>>, <<72192, 72192>>, <<72203, 72242>>, <<72250, 72250>>,
    <<72272, 72272>>, <<72284, 72329>>, <<72349, 72349>>, <<72368, 72440>>,
    <<72704, 72712>>, <<72714, 72750>>, <<72768, 72768>>, <<72818, 72847>>,
    <<72960, 72966>>, <<72968, 72969>>, <<72971, 73008>>, <<73030, 73030>>,
    <<73056, 73061>>, <<73063, 73064>>, <<73066, 73097>>, <<73112, 73112>>,
    <<73440, 73458>>, <<73648, 73648>>, <<73728, 74649>>, <<74880, 75075>>,
    <<77712, 77808>>, <<77824, 78894>>, <<82944, 83526>>, <<92160, 92728>>,
    <<92736, 92766>>, <<92784, 92862>>, <<92880, 92909>>, <<92928, 92975>>,
    <<92992, 92995>>, <<93027, 93047>>, <<93053, 93071>>, <<93760, 93823>>,
    <<93952, 94026>>, <<94032, 94032>>, <<94099, 94111>>, <<94176, 94177>>,
    <<94179, 94179>>, <<94208, 100343>>, <<100352, 101589>>,
    <<101632, 101640>>, <<110576, 110579>>, <<110581, 110587>>,
    <<110589, 110590>>, <<110592, 110882>>, <<110928, 110930>>,
    <<110948, 110951>>, <<110960, 111355>>, <<113664, 113770>>,
    <<113776, 113788>>, <<113792, 113800>>, <<113808, 113817>>,
    <<119808, 119892>>, <<119894, 119964>>, <<119966, 119967>>,
    <<119970, 119970>>, <<119973, 119974>>, <<119977, 119980>>,
    <<119982, 119993>>, <<119995, 119995>>, <<119997, 120003>>,
    <<120005, 120069>>, <<120071, 120074>>, <<120077, 120084>>,
    <<120086, 120092>>, <<120094, 120121>>, <<120123, 120126>>,
    <<120128, 120132>>, <<120134, 120134>>, <<120138, 120144>>,
    <<120146, 120485>>, <<120488, 120512>>, <<120514, 120538>>,
    <<120540, 120570>>, <<120572, 120596>>, <<120598, 120628>>,
    <<120630, 120654>>, <<120656, 120686>>, <<120688, 120712>>,
    <<120714, 120744>>, <<120746, 120770>>, <<120772, 120779>>,
    <<122624, 122654>>, <<123136, 123180>>, <<123191, 123197>>,
    <<123214, 123214>>, <<123536, 123565>>, <<123584, 123627>>,
    <<124896, 124902>>, <<124904, 124907>>, <<124909, 124910>>,
    <<124912, 124926>>, <<124928, 125124>>, <<125184, 125251>>,
    <<125259, 125259>>, <<126464, 126467>>, <<126469, 126495>>,
    <<126497, 126498>>, <<126500, 126500>>, <<126503, 126503>>,
    <<126505, 126514>>, <<126516, 126519>>, <<126521, 126521>>,
    <<126523, 126523>>, <<126530, 126530>>, <<126535, 126535>>,
    <<126537, 126537>>, <<126539, 126539>>, <<126541, 126543>>,
    <<126545, 126546>>, <<126548, 126548>>, <<126551, 126551>>,
    <<126553, 126553>>, <<126555, 126555>>, <<126557, 126557>>,
    <<126559, 126559>>, <<126561, 126562>>, <<126564, 126564>>,
    <<126567, 126570>>, <<126572, 126578>>, <<126580, 126583>>,
    <<126585, 126588>>, <<126590, 126590>>, <<126592, 126601>>,
    <<126603, 126619>>, <<126625, 126627>>, <<126629, 126633>>,
    <<126635, 126651>>, <<131072, 173791>>, <<173824, 177976>>,
    <<177984, 178205>>, <<178208, 183969>>, <<183984, 191456>>,
    <<194560, 195101>>, <<196608, 201546>>
    >>

\* str.isalnum
ALNUM_RANGES ==
    <<
    <<170, 170>>, <<178, 179>>, <<181, 181>>, <<185, 186>>, <<188, 190>>,
    <<192, 214>>, <<216, 246>>, <<248, 705>>, <<710, 721>>, <<736, 740>>,
    <<748, 748>>, <<750, 750>>, <<880, 884>>, <<886, 887>>, <<890, 893>>,
    <<895, 895>>, <<902, 902>>, <<904, 906>>, <<908, 908>>, <<910, 929>>,
    <<931, 1013>>, <<1015, 1153>>, <<1162, 1327>>, <<1329, 1366>>,
    <<1369, 1369>>, <<1376, 1416>>, <<1488, 1514>>, <<1519, 1522>>,
    <<1568, 1610>>, <<1632, 1641>>, <<1646, 1647>>, <<1649, 1747>>,
    <<1749, 1749>>, <<1765, 1766>>, <<1774, 1788>>, <<1791, 1791>>,
    <<1808, 1808>>, <<1810, 1839>>, <<1869, 1957>>, <<1969, 1969>>,
    <<1984, 2026>>, <<2036, 2037>>, <<2042, 2042>>, <<2048, 2069>>,
    <<2074, 2074>>, <<2084, 2084>>, <<2088, 2088>>, <<2112, 2136>>,
    <<2144, 2154>>, <<2160, 2183>>, <<2185, 2190>>, <<2208, 2249>>,
    <<2308, 2361>>, <<2365, 2365>>, <<2384, 2384>>, <<2392, 2401>>,
    <<2406, 2415>>, <<2417, 2432>>, <<2437, 2444>>, <<2447, 2448>>,
    <<2451, 2472>>, <<2474, 2480>>, <<2482, 2482>>, <<2486, 2489>>,
    <<2493, 2493>>, <<2510, 2510>>, <<2524, 2525>>, <<2527, 2529>>,
    <<2534, 2545>>, <<2548, 2553>>, <<2556, 2556>>, <<2565, 2570>>,
    <<2575, 2576>>, <<2579, 2600>>, <<2602, 2608>>, <<2610, 2611>>,
    <<2613, 2614>>, <<2616, 2617>>, <<2649, 2652>>, <<2654, 2654>>,
    <<2662, 2671>>, <<2674, 2676>>, <<2693, 2701>>, <<2703, 2705>>,
    <<2707, 2728>>, <<2730, 2736>>, <<2738, 2739>>, <<2741, 2745>>,
    <<2749, 2749>>, <<2768, 2768>>, <<2784, 2785>>, <<2790, 2799>>,
    <<2809, 2809>>, <<2821, 2828>>, <<2831, 2832>>, <<2835, 2856>>,
    <<2858, 2864>>, <<2866, 2867>>, <<2869, 2873>>, <<2877, 2877>>,
    <<2908, 2909>>, <<2911, 2913>>, <<2918, 2927>>, <<2929, 2935>>,
    <<2947, 2947>>, <<2949, 2954>>, <<2958, 2960>>, <<2962, 2965>>,
    <<2969, 2970>>, <<2972, 2972>>, <<2974, 2975>>, <<2979, 2980>>,
    <<2984, 2986>>, <<2990, 3001>>, <<3024, 3024>>, <<3046, 3058>>,
    <<3077, 3084>>, <<3086, 3088>>, <<3090, 3112>>, <<3114, 3129>>,
    <<3133, 3133>>, <<3160, 3162>>, <<3165, 3165>>, <<3168, 3169>>,
    <<3174, 3183>>, <<3192, 3198>>, <<3200, 3200>>, <<3205, 3212>>,
    <<3214, 3216>>, <<3218, 3240>>, <<3242, 3251>>, <<3253, 3257>>,
    <<3261, 3261>>, <<3293, 3294>>, <<3296, 3297>>, <<3302, 3311>>,
    <<3313, 3314>>, <<3332, 3340>>, <<3342, 3344>>, <<3346, 3386>>,
    <<3389, 3389>>, <<3406, 3406>>, <<3412, 3414>>, <<3416, 3425>>,
    <<3430, 3448>>, <<3450, 3455>>, <<3461, 3478>>, <<3482, 3505>>,
    <<3507, 3515>>, <<3517, 3517>>, <<3520, 3526>>, <<3558, 3567>>,
    <<3585, 3632>>, <<3634, 3635>>, <<3648, 3654>>, <<3664, 3673>>,
    <<3713, 3714>>, <<3716, 3716>>, <<3718, 3722>>, <<3724, 3747>>,
    <<3749, 3749>>, <<3751, 3760>>, <<3762, 3763>>, <<3773, 3773>>,
    <<3776, 3780>>, <<3782, 3782>>, <<3792, 3801>>, <<3804, 3807>>,
    <<3840, 3840>>, <<3872, 3891>>, <<3904, 3911>>, <<3913, 3948>>,
    <<3976, 3980>>, <<4096, 4138>>, <<4159, 4169>>, <<4176, 4181>>,
    <<4186, 4189>>, <<4193, 4193>>, <<4197, 4198>>, <<4206, 4208>>,
    <<4213, 4225>>, <<4238, 4238>>, <<4240, 4249>>, <<4256, 4293>>,
    <<4295, 4295>>, <<4301, 4301>>, <<4304, 4346>>, <<4348, 4680>>,
    <<4682, 4685>>, <<4688, 4694>>, <<4696, 4696>>, <<4698, 4701>>,
    <<4704, 4744>>, <<4746, 4749>>, <<4752, 4784>>, <<4786, 4789>>,
    <<4792, 4798>>, <<4800, 4800>>, <<4802, 4805>>, <<4808, 4822>>,
    <<4824, 4880>>, <<4882, 4885>>, <<4888, 4954>>, <<4969, 4988>>,
    <<4992, 5007>>, <<5024, 5109>>, <<5112, 5117>>, <<5121, 5740>>,
    <<5743, 5759>>, <<5761, 5786>>, <<5792, 5866>>, <<5870, 5880>>,
    <<5888, 5905>>, <<5919, 5937>>, <<5952, 5969>>, <<5984, 5996>>,
    <<5998, 6000>>, <<6016, 6067>>, <<6103, 6103>>, <<6108, 6108>>,
    <<6112, 6121>>, <<6128, 6137>>, <<6160, 6169>>, <<6176, 6264>>,
    <<6272, 6276>>, <<6279, 6312>>, <<6314, 6314>>, <<6320, 6389>>,
    <<6400, 6430>>, <<6470, 6509>>, <<6512, 6516>>, <<6528, 6571>>,
    <<6576, 6601>>, <<6608, 6618>>, <<6656, 6678>>, <<6688, 6740>>,
    <<6784, 6793>>, <<6800, 6809>>, <<6823, 6823>>, <<6917, 6963>>,
    <<6981, 6988>>, <<6992, 7001>>, <<7043, 7072>>, <<7086, 7141>>,
    <<7168, 7203>>, <<7232, 7241>>, <<7245, 7293>>, <<7296, 7304>>,
    <<7312, 7354>>, <<7357, 7359>>, <<7401, 7404>>, <<7406, 7411>>,
    <<7413, 7414>>, <<7418, 7418>>, <<7424, 7615>>, <<7680, 7957>>,
    <<7960, 7965>>, <<7968, 8005>>, <<8008, 8013>>, <<8016, 8023>>,
    <<8025, 8025>>, <<8027, 8027>>, <<8029, 8029>>, <<8031, 8061>>,
    <<8064, 8116>>, <<8118, 8124>>, <<8126, 8126>>, <<8130, 8132>>,
    <<8134, 8140>>, <<8144, 8147>>, <<8150, 8155>>, <<8160, 8172>>,
    <<8178, 8180>>, <<8182, 8188>>, <<8304, 8305>>, <<8308, 8313>>,
    <<8319, 8329>>, <<8336, 8348>>, <<8450, 8450>>, <<8455, 8455>>,
    <<8458, 8467>>, <<8469, 8469>>, <<8473, 8477>>, <<8484, 8484>>,
    <<8486, 8486>>, <<8488, 8488>>, <<8490, 8493>>, <<8495, 8505>>,
    <<8508, 8511>>, <<8517, 8521>>, <<8526, 8526>>, <<8528, 8585>>,
    <<9312, 9371>>, <<9450, 9471>>, <<10102, 10131>>, <<11264, 11492>>,
    <<11499, 11502>>, <<11506, 11507>>, <<11517, 11517>>, <<11520, 11557>>,
    <<11559, 11559>>, <<11565, 11565>>, <<11568, 11623>>, <<11631, 11631>>,
    <<11648, 11670>>, <<11680, 11686>>, <<11688, 11694>>, <<11696, 11702>>,
    <<11704, 11710>>, <<11712, 11718>>, <<11720, 11726>>, <<11728, 11734>>,
    <<11736, 11742>>, <<11823, 11823>>, <<12293, 12295>>, <<12321, 12329>>,
    <<12337, 12341>>, <<12344, 12348>>, <<12353, 12438>>, <<12445, 12447>>,
    <<12449, 12538>>, <<12540, 12543>>, <<12549, 12591>>, <<12593, 12686>>,
    <<12690, 12693>>, <<12704, 12735>>, <<12784, 12799>>, <<12832, 12841>>,
    <<12872, 12879>>, <<12881, 12895>>, <<12928, 12937>>, <<12977, 12991>>,
    <<13312, 19903>>, <<19968, 42124>>, <<42192, 42237>>, <<42240, 42508>>,
    <<42512, 42539>>, <<42560, 42606>>, <<42623, 42653>>, <<42656, 42735>>,
    <<42775, 42783>>, <<42786, 42888>>, <<42891, 42954>>, <<42960, 42961>>,
    <<42963, 42963>>, <<42965, 42969>>, <<42994, 43009>>, <<43011, 43013>>,
    <<43015, 43018>>, <<43020, 43042>>, <<43056, 43061>>, <<43072, 43123>>,
    <<43138, 43187>>, <<43216, 43225>>, <<43250, 43255>>, <<43259, 43259>>,
    <<43261, 43262>>, <<43264, 43301>>, <<43312, 43334>>, <<43360, 43388>>,
    <<43396, 43442>>, <<43471, 43481>>, <<43488, 43492>>, <<43494, 43518>>,
    <<43520, 43560>>, <<43584, 43586>>, <<43588, 43595>>, <<43600, 43609>>,
    <<43616, 43638>>, <<43642, 43642>>, <<43646, 43695>>, <<43697, 43697>>,
    <<43701, 43702>>, <<43705, 43709>>, <<43712, 43712>>, <<43714, 43714>>,
    <<43739, 43741>>, <<43744, 43754>>, <<43762, 43764>>, <<43777, 43782>>,
    <<43785, 43790>>, <<43793, 43798>>, <<43808, 43814>>, <<43816, 43822>>,
    <<43824, 43866>>, <<43868, 43881>>, <<43888, 44002>>, <<44016, 44025>>,
    <<44032, 55203>>, <<55216, 55238>>, <<55243, 55291>>, <<63744, 64109>>,
    <<64112, 64217>>, <<64256, 64262>>, <<64275, 64279>>, <<64285, 64285>>,
    <<64287, 64296>>, <<64298, 64310>>, <<64312, 64316>>, <<64318, 64318>>,
    <<64320, 64321>>, <<64323, 64324>>, <<64326, 64433>>, <<64467, 64829>>,
    <<64848, 64911>>, <<64914, 64967>>, <<65008, 65019>>, <<65136, 65140>>,
    <<65142, 65276>>, <<65296, 65305>>, <<65313, 65338>>, <<65345, 65370>>,
    <<65382, 65470>>, <<65474, 65479>>, <<65482, 65487>>, <<65490, 65495>>,
    <<65498, 65500>>, <<65536, 65547>>, <<65549, 65574>>, <<65576, 65594>>,
    <<65596, 65597>>, <<65599, 65613>>, <<65616, 65629>>, <<65664, 65786>>,
    <<65799, 65843>>, <<65856, 65912>>, <<65930, 65931>>, <<66176, 66204>>,
    <<66208, 66256>>, <<66273, 66299>>, <<66304, 66339>>, <<66349, 66378>>,
    <<66384, 66421>>, <<66432, 66461>>, <<66464, 66499>>, <<66504, 66511>>,
    <<66513, 66517>>, <<66560, 66717>>, <<66720, 66729>>, <<66736, 66771>>,
    <<66776, 66811>>, <<66816, 66855>>, <<66864, 66915>>, <<66928, 66938>>,
    <<66940, 66954>>, <<66956, 66962>>, <<66964, 66965>>, <<66967, 66977>>,
    <<66979, 66993>>, <<66995, 67001>>, <<67003, 67004>>, <<67072, 67382>>,
    <<67392, 67413>>, <<67424, 67431>>, <<67456, 67461>>, <<67463, 67504>>,
    <<67506, 67514>>, <<67584, 67589>>, <<67592, 67592>>, <<67594, 67637>>,
    <<67639, 67640>>, <<67644, 67644>>, <<67647, 67669>>, <<67672, 67702>>,
    <<67705, 67742>>, <<67751, 67759>>, <<67808, 67826>>, <<67828, 67829>>,
    <<67835, 67867>>, <<67872, 67897>>, <<67968, 68023>>, <<68028, 68047>>,
    <<68050, 68096>>, <<68112, 68115>>, <<68117, 68119>>, <<68121, 68149>>,
    <<68160, 68168>>, <<68192, 68222>>, <<68224, 68255>>, <<68288, 68295>>,
    <<68297, 68324>>, <<68331, 68335>>, <<68352, 68405>>, <<68416, 68437>>,
    <<68440, 68466>>, <<68472, 68497>>, <<68521, 68527>>, <<68608, 68680>>,
    <<68736, 68786>>, <<68800, 68850>>, <<68858, 68899>>, <<68912, 68921>>,
    <<69216, 69246>>, <<69248, 69289>>, <<69296, 69297>>, <<69376, 69415>>,
    <<69424, 69445>>, <<69457, 69460>>, <<69488, 69505>>, <<69552, 69579>>,
    <<69600, 69622>>, <<69635, 69687>>, <<69714, 69743>>, <<69745, 69746>>,
    <<69749, 69749>>, <<69763, 69807>>, <<69840, 69864>>, <<69872, 69881>>,
    <<69891, 69926>>, <<69942, 69951>>, <<69956, 69956>>, <<69959, 69959>>,
    <<69968, 70002>>, <<70006, 70006>>, <<70019, 70066>>, <<70081, 70084>>,
    <<70096, 70106>>, <<70108, 70108>>, <<70113, 70132>>, <<70144, 70161>>,
    <<70163, 70187>>, <<70272, 70278>>, <<70280, 70280>>, <<70282, 70285>>,
    <<70287, 70301>>, <<70303, 70312>>, <<70320, 70366>>, <<70384, 70393>>,
    <<70405, 70412>>, <<70415, 70416>>, <<70419, 70440>>, <<70442, 70448>>,
    <<70450, 70451>>, <<70453, 70457>>, <<70461, 70461>>, <<70480, 70480>>,
    <<70493, 70497>>, <<70656, 70708>>, <<70727, 70730>>, <<70736, 70745>>,
    <<70751, 70753>>, <<70784, 70831>>, <<70852, 70853>>, <<70855, 70855>>,
    <<70864, 70873>>, <<71040, 71086>>, <<71128, 71131>>, <<71168, 71215>>,
    <<71236, 71236>>, <<71248, 71257>>, <<71296, 71338>>, <<71352, 71352>>,
    <<71360, 71369>>, <<71424, 71450>>, <<71472, 71483>>, <<71488, 71494>>,
    <<71680, 71723>>, <<71840, 71922>>, <<71935, 71942>>, <<71945, 71945>>,
    <<71948, 71955>>, <<71957, 71958>>, <<71960, 71983>>, <<71999, 71999>>,
    <<72001, 72001>>, <<72016, 72025>>, <<72096, 72103>>, <<72106, 72144>>,
    <<72161, 72161>>, <<72163, 72163>>, <<72192, 72192>>, <<72203, 72242>>,
    <<72250, 72250>>, <<72272, 72272>>, <<72284, 72329>>, <<72349, 72349>>,
    <<72368, 72440>>, <<72704, 72712>>, <<72714, 72750>>, <<72768, 72768>>,
    <<72784, 72812>>, <<72818, 72847>>, <<72960, 72966>>, <<72968, 72969>>,
    <<72971, 73008>>, <<73030, 73030>>, <<73040, 73049>>, <<73056, 73061>>,
    <<73063, 73064>>, <<73066, 73097>>, <<73112, 73112>>, <<73120, 73129>>,
    <<73440, 73458>>, <<73648, 73648>>, <<73664, 73684>>, <<73728, 74649>>,
    <<74752, 74862>>, <<74880, 75075>>, <<77712, 77808>>, <<77824, 78894>>,
    <<82944, 83526>>, <<92160, 92728>>, <<92736, 92766>>, <<92768, 92777>>,
    <<92784, 92862>>, <<92864, 92873>>, <<92880, 92909>>, <<92928, 92975>>,
    <<92992, 92995>>, <<93008, 93017>>, <<93019, 93025>>, <<93027, 93047>>,
    <<93053, 93071>>, <<93760, 93846>>, <<93952, 94026>>, <<94032, 94032>>,
    <<94099, 94111>>, <<94176, 94177>>, <<94179, 94179>>, <<94208, 100343>>,
    <<100352, 101589>>, <<101632, 101640>>, <<110576, 110579>>,
    <<110581, 110587>>, <<110589, 110590>>, <<110592, 110882>>,
    <<110928, 110930>>, <<110948, 110951>>, <<110960, 111355>>,
    <<113664, 113770>>, <<113776, 113788>>, <<113792, 113800>>,
    <<113808, 113817>>, <<119520, 119539>>, <<119648, 119672>>,
    <<119808, 119892>>, <<119894, 119964>>, <<119966, 119967>>,
    <<119970, 119970>>, <<119973, 119974>>, <<119977, 119980>>,
    <<119982, 119993>>, <<119995, 119995>>, <<119997, 120003>>,
    <<120005, 120069>>, <<120071, 120074>>, <<120077, 120084>>,
    <<120086, 120092>>, <<120094, 120121>>, <<120123, 120126>>,
    <<120128, 120132>>, <<120134, 120134>>, <<120138, 120144>>,
    <<120146, 120485>>, <<120488, 120512>>, <<120514, 120538>>,
    <<120540, 120570>>, <<120572, 120596>>, <<120598, 120628>>,
    <<120630, 120654>>, <<120656, 120686>>, <<120688, 120712>>,
    <<120714, 120744>>, <<120746, 120770>>, <<120772, 120779>>,
    <<120782, 120831>>, <<122624, 122654>>, <<123136, 123180>>,
    <<123191, 123197>>, <<123200, 123209>>, <<123214, 123214>>,
    <<123536, 123565>>, <<123584, 123627>>, <<123632, 123641>>,
    <<124896, 124902>>, <<124904, 124907>>, <<124909, 124910>>,
    <<124912, 124926>>, <<124928, 125124>>, <<125127, 125135>>,
    <<125184, 125251>>, <<125259, 125259>>, <<125264, 125273>>,
    <<126065, 126123>>, <<126125, 126127>>, <<126129, 126132>>,
    <<126209, 126253>>, <<126255, 126269>>, <<126464, 126467>>,
    <<126469, 126495>>, <<126497, 126498>>, <<126500, 126500>>,
    <<126503, 126503>>, <<126505, 126514>>, <<126516, 126519>>,
    <<126521, 126521>>, <<126523, 126523>>, <<126530, 126530>>,
    <<126535, 126535>>, <<126537, 126537>>, <<126539, 126539>>,
    <<126541, 126543>>, <<126545, 126546>>, <<126548, 126548>>,
    <<126551, 126551>>, <<126553, 126553>>, <<126555, 126555>>,
    <<126557, 126557>>, <<126559, 126559>>, <<126561, 126562>>,
    <<126564, 126564>>, <<126567, 126570>>, <<126572, 126578>>,
    <<126580, 126583>>, <<126585, 126588>>, <<126590, 126590>>,
    <<126592, 126601>>, <<126603, 126619>>, <<126625, 126627>>,
    <<126629, 126633>>, <<126635, 126651>>, <<127232, 127244>>,
    <<130032, 130041>>, <<131072, 173791>>, <<173824, 177976>>,
    <<177984, 178205>>, <<178208, 183969>>, <<183984, 191456>>,
    <<194560, 195101>>, <<196608, 201546>>
    >>

\* str.lower of one character, where it changes the character
LOWER_TABLE ==
    <<
    <<192, <<224>>>>, <<193, <<225>>>>, <<194, <<226>>>>, <<195, <<227>>>>,
    <<196, <<228>>>>, <<197, <<229>>>>, <<198, <<230>>>>, <<199, <<231>>>>,
    <<200, <<232>>>>, <<201, <<233>>>>, <<202, <<234>>>>, <<203, <<235>>>>,
    <<204, <<236>>>>, <<205, <<237>>>>, <<206, <<238>>>>, <<207, <<239>>>>,
    <<208, <<240>>>>, <<209, <<241>>>>, <<210, <<242>>>>, <<211, <<243>>>>,
    <<212, <<244>>>>, <<213, <<245>>>>, <<214, <<246>>>>, <<216, <<248>>>>,
    <<217, <<249>>>>, <<218, <<250>>>>, <<219, <<251>>>>, <<220, <<252>>>>,
    <<221, <<253>>>>, <<222, <<254>>>>, <<256, <<257>>>>, <<258, <<259>>>>,
    <<260, <<261>>>>, <<262, <<263>>>>, <<264, <<265>>>>, <<266, <<267>>>>,
    <<268, <<269>>>>, <<270, <<271>>>>, <<272, <<273>>>>, <<274, <<275>>>>,
    <<276, <<277>>>>, <<278, <<279>>>>, <<280, <<281>>>>, <<282, <<283>>>>,
    <<284, <<285>>>>, <<286, <<287>>>>, <<288, <<289>>>>, <<290, <<291>>>>,
    <<292, <<293>>>>, <<294, <<295>>>>, <<296, <<297>>>>, <<298, <<299>>>>,
    <<300, <<301>>>>, <<302, <<303>>>>, <<304, <<105, 775>>>>,
    <<306, <<307>>>>, <<308, <<309>>>>, <<310, <<311>>>>, <<313, <<314>>>>,
    <<315, <<316>>>>, <<317, <<318>>>>, <<319, <<320>>>>, <<321, <<322>>>>,
    <<323, <<324>>>>, <<325, <<326>>>>, <<327, <<328>>>>, <<330, <<331>>>>,
    <<332, <<333>>>>, <<334, <<335>>>>, <<336, <<337>>>>, <<338, <<339>>>>,
    <<340, <<341>>>>, <<342, <<343>>>>, <<344, <<345>>>>, <<346, <<347>>>>,
    <<348, <<349>>>>, <<350, <<351>>>>, <<352, <<353>>>>, <<354, <<355>>>>,
    <<356, <<357>>>>, <<358, <<359>>>>, <<360, <<361>>>>, <<362, <<363>>>>,
    <<364, <<365>>>>, <<366, <<367>>>>, <<368, <<369>>>>, <<370, <<371>>>>,
    <<372, <<373>>>>, <<374, <<375>>>>, <<376, <<255>>>>, <<377, <<378>>>>,
    <<379, <<380>>>>, <<381, <<382>>>>, <<385, <<595>>>>, <<386, <<387>>>>,
    <<388, <<389>>>>, <<390, <<596>>>>, <<391, <<392>>>>, <<393, <<598>>>>,
    <<394, <<599>>>>, <<395, <<396>>>>, <<398, <<477>>>>, <<399, <<601>>>>,
    <<400, <<603>>>>, <<401, <<402>>>>, <<403, <<608>>>>, <<404, <<611>>>>,
    <<406, <<617>>>>, <<407, <<616>>>>, <<408, <<409>>>>, <<412, <<623>>>>,
    <<413, <<626>>>>, <<415, <<629>>>>, <<416, <<417>>>>, <<418, <<419>>>>,
    <<420, <<421>>>>, <<422, <<640>>>>, <<423, <<424>>>>, <<425, <<643>>>>,
    <<428, <<429>>>>, <<430, <<648>>>>, <<431, <<432>>>>, <<433, <<650>>>>,
    <<434, <<651>>>>, <<435, <<436>>>>, <<437, <<438>>>>, <<439, <<658>>>>,
    <<440, <<441>>>>, <<444, <<445>>>>, <<452, <<454>>>>, <<453, <<454>>>>,
    <<455, <<457>>>>, <<456, <<457>>>>, <<458, <<460>>>>, <<459, <<460>>>>,
    <<461, <<462>>>>, <<463, <<464>>>>, <<465, <<466>>>>, <<467, <<468>>>>,
    <<469, <<470>>>>, <<471, <<472>>>>, <<473, <<474>>>>, <<475, <<476>>>>,
    <<478, <<479>>>>, <<480, <<481>>>>, <<482, <<483>>>>, <<484, <<485>>>>,
    <<486, <<487>>>>, <<488, <<489>>>>, <<490, <<491>>>>, <<492, <<493>>>>,
    <<494, <<495>>>>, <<497, <<499>>>>, <<498, <<499>>>>, <<500, <<501>>>>,
    <<502, <<405>>>>, <<503, <<447>>>>, <<504, <<505>>>>, <<506, <<507>>>>,
    <<508, <<509>>>>, <<510, <<511>>>>, <<512, <<513>>>>, <<514, <<515>>>>,
    <<516, <<517>>>>, <<518, <<519>>>>, <<520, <<521>>>>, <<522, <<523>>>>,
    <<524, <<525>>>>, <<526, <<527>>>>, <<528, <<529>>>>, <<530, <<531>>>>,
    <<532, <<533>>>>, <<534, <<535>>>>, <<536, <<537>>>>, <<538, <<539>>>>,
    <<540, <<541>>>>, <<542, <<543>>>>, <<544, <<414>>>>, <<546, <<547>>>>,
    <<548, <<549>>>>, <<550, <<551>>>>, <<552, <<553>>>>, <<554, <<555>>>>,
    <<556, <<557>>>>, <<558, <<559>>>>, <<560, <<561>>>>, <<562, <<563>>>>,
    <<570, <<11365>>>>, <<571, <<572>>>>, <<573, <<410>>>>,
    <<574, <<11366>>>>, <<577, <<578>>>>, <<579, <<384>>>>, <<580, <<649>>>>,
    <<581, <<652>>>>, <<582, <<583>>>>, <<584, <<585>>>>, <<586, <<587>>>>,
    <<588, <<589>>>>, <<590, <<591>>>>, <<880, <<881>>>>, <<882, <<883>>>>,
    <<886, <<887>>>>, <<895, <<1011>>>>, <<902, <<940>>>>, <<904, <<941>>>>,
    <<905, <<942>>>>, <<906, <<943>>>>, <<908, <<972>>>>, <<910, <<973>>>>,
    <<911, <<974>>>>, <<913, <<945>>>>, <<914, <<946>>>>, <<915, <<947>>>>,
    <<916, <<948>>>>, <<917, <<949>>>>, <<918, <<950>>>>, <<919, <<951>>>>,
    <<920, <<952>>>>, <<921, <<953>>>>, <<922, <<954>>>>, <<923, <<955>>>>,
    <<924, <<956>>>>, <<925, <<957>>>>, <<926, <<958>>>>, <<927, <<959>>>>,
    <<928, <<960>>>>, <<929, <<961>>>>, <<931, <<963>>>>, <<932, <<964>>>>,
    <<933, <<965>>>>, <<934, <<966>>>>, <<935, <<967>>>>, <<936, <<968>>>>,
    <<937, <<969>>>>, <<938, <<970>>>>, <<939, <<971>>>>, <<975, <<983>>>>,
    <<984, <<985>>>>, <<986, <<987>>>>, <<988, <<989>>>>, <<990, <<991>>>>,
    <<992, <<993>>>>, <<994, <<995>>>>, <<996, <<997>>>>, <<998, <<999>>>>,
    <<1000, <<1001>>>>, <<1002, <<1003>>>>, <<1004, <<1005>>>>,
    <<1006, <<1007>>>>, <<1012, <<952>>>>, <<1015, <<1016>>>>,
    <<1017, <<1010>>>>, <<1018, <<1019>>>>, <<1021, <<891>>>>,
    <<1022, <<892>>>>, <<1023, <<893>>>>, <<1024, <<1104>>>>,
    <<1025, <<1105>>>>, <<1026, <<1106>>>>, <<1027, <<1107>>>>,
    <<1028, <<1108>>>>, <<1029, <<1109>>>>, <<1030, <<1110>>>>,
    <<1031, <<1111>>>>, <<1032, <<1112>>>>, <<1033, <<1113>>>>,
    <<1034, <<1114>>>>, <<1035, <<1115>>>>, <<1036, <<1116>>>>,
    <<1037, <<1117>>>>, <<1038, <<1118>>>>, <<1039, <<1119>>>>,
    <<1040, <<1072>>>>, <<1041, <<1073>>>>, <<1042, <<1074>>>>,
    <<1043, <<1075>>>>, <<1044, <<1076>>>>, <<1045, <<1077>>>>,
    <<1046, <<1078>>>>, <<1047, <<1079>>>>, <<1048, <<1080>>>>,
    <<1049, <<1081>>>>, <<1050, <<1082>>>>, <<1051, <<1083>>>>,
    <<1052, <<1084>>>>, <<1053, <<1085>>>>, <<1054, <<1086>>>>,
    <<1055, <<1087>>>>, <<1056, <<1088>>>>, <<1057, <<1089>>>>,
    <<1058, <<1090>>>>, <<1059, <<1091>>>>, <<1060, <<1092>>>>,
    <<1061, <<1093>>>>, <<1062, <<1094>>>>, <<1063, <<1095>>>>,
    <<1064, <<1096>>>>, <<1065, <<1097>>>>, <<1066, <<1098>>>>,
    <<1067, <<1099>>>>, <<1068, <<1100>>>>, <<1069, <<1101>>>>,
    <<1070, <<1102>>>>, <<1071, <<1103>>>>, <<1120, <<1121>>>>,
    <<1122, <<1123>>>>, <<1124, <<1125>>>>, <<1126, <<1127>>>>,
    <<1128, <<1129>>>>, <<1130, <<1131>>>>, <<1132, <<1133>>>>,
    <<1134, <<1135>>>>, <<1136, <<1137>>>>, <<1138, <<1139>>>>,
    <<1140, <<1141>>>>, <<1142, <<1143>>>>, <<1144, <<1145>>>>,
    <<1146, <<1147>>>>, <<1148, <<1149>>>>, <<1150, <<1151>>>>,
    <<1152, <<1153>>>>, <<1162, <<1163>>>>, <<1164, <<1165>>>>,
    <<1166, <<1167>>>>, <<1168, <<1169>>>>, <<1170, <<1171>>>>,
    <<1172, <<1173>>>>, <<1174, <<1175>>>>, <<1176, <<1177>>>>,
    <<1178, <<1179>>>>, <<1180, <<1181>>>>, <<1182, <<1183>>>>,
    <<1184, <<1185>>>>, <<1186, <<1187>>>>, <<1188, <<1189>>>>,
    <<1190, <<1191>>>>, <<1192, <<1193>>>>, <<1194, <<1195>>>>,
    <<1196, <<1197>>>>, <<1198, <<1199>>>>, <<1200, <<1201>>>>,
    <<1202, <<1203>>>>, <<1204, <<1205>>>>, <<1206, <<1207>>>>,
    <<1208, <<1209>>>>, <<1210, <<1211>>>>, <<1212, <<1213>>>>,
    <<1214, <<1215>>>>, <<1216, <<1231>>>>, <<1217, <<1218>>>>,
    <<1219, <<1220>>>>, <<1221, <<1222>>>>, <<1223, <<1224>>>>,
    <<1225, <<1226>>>>, <<1227, <<1228>>>>, <<1229, <<1230>>>>,
    <<1232, <<1233>>>>, <<1234, <<1235>>>>, <<1236, <<1237>>>>,
    <<1238, <<1239>>>>, <<1240, <<1241>>>>, <<1242, <<1243>>>>,
    <<1244, <<1245>>>>, <<1246, <<1247>>>>, <<1248, <<1249>>>>,
    <<1250, <<1251>>>>, <<1252, <<1253>>>>, <<1254, <<1255>>>>,
    <<1256, <<1257>>>>, <<1258, <<1259>>>>, <<1260, <<1261>>>>,
    <<1262, <<1263>>>>, <<1264, <<1265>>>>, <<1266, <<1267>>>>,
    <<1268, <<1269>>>>, <<1270, <<1271>>>>, <<1272, <<1273>>>>,
    <<1274, <<1275>>>>, <<1276, <<1277>>>>, <<1278, <<1279>>>>,
    <<1280, <<1281>>>>, <<1282, <<1283>>>>, <<1284, <<1285>>>>,
    <<1286, <<1287>>>>, <<1288, <<1289>>>>, <<1290, <<1291>>>>,
    <<1292, <<1293>>>>, <<1294, <<1295>>>>, <<1296, <<1297>>>>,
    <<1298, <<1299>>>>, <<1300, <<1301>>>>, <<1302, <<1303>>>>,
    <<1304, <<1305>>>>, <<1306, <<1307>>>>, <<1308, <<1309>>>>,
    <<1310, <<1311>>>>, <<1312, <<1313>>>>, <<1314, <<1315>>>>,
    <<1316, <<1317>>>>, <<1318, <<1319>>>>, <<1320, <<1321>>>>,
    <<1322, <<1323>>>>, <<1324, <<1325>>>>, <<1326, <<1327>>>>,
    <<1329, <<1377>>>>, <<1330, <<1378>>>>, <<1331, <<1379>>>>,
    <<1332, <<1380>>>>, <<1333, <<1381>>>>, <<1334, <<1382>>>>,
    <<1335, <<1383>>>>, <<1336, <<1384>>>>, <<1337, <<1385>>>>,
    <<1338, <<1386>>>>, <<1339, <<1387>>>>, <<1340, <<1388>>>>,
    <<1341, <<1389>>>>, <<1342, <<1390>>>>, <<1343, <<1391>>>>,
    <<1344, <<1392>>>>, <<1345, <<1393>>>>, <<1346, <<1394>>>>,
    <<1347, <<1395>>>>, <<1348, <<1396>>>>, <<1349, <<1397>>>>,
    <<1350, <<1398>>>>, <<1351, <<1399>>>>, <<1352, <<1400>>>>,
    <<1353, <<1401>>>>, <<1354, <<1402>>>>, <<1355, <<1403>>>>,
    <<1356, <<1404>>>>, <<1357, <<1405>>>>, <<1358, <<1406>>>>,
    <<1359, <<1407>>>>, <<1360, <<1408>>>>, <<1361, <<1409>>>>,
    <<1362, <<1410>>>>, <<1363, <<1411>>>>, <<1364, <<1412>>>>,
    <<1365, <<1413>>>>, <<1366, <<1414>>>>, <<4256, <<11520>>>>,
    <<4257, <<11521>>>>, <<4258, <<11522>>>>, <<4259, <<11523>>>>,
    <<4260, <<11524>>>>, <<4261, <<11525>>>>, <<4262, <<11526>>>>,
    <<4263, <<11527>>>>, <<4264, <<11528>>>>, <<4265, <<11529>>>>,
    <<4266, <<11530>>>>, <<4267, <<11531>>>>, <<4268, <<11532>>>>,
    <<4269, <<11533>>>>, <<4270, <<11534>>>>, <<4271, <<11535>>>>,
    <<4272, <<11536>>>>, <<4273, <<11537>>>>, <<4274, <<11538>>>>,
    <<4275, <<11539>>>>, <<4276, <<11540>>>>, <<4277, <<11541>>>>,
    <<4278, <<11542>>>>, <<4279, <<11543>>>>, <<4280, <<11544>>>>,
    <<4281, <<11545>>>>, <<4282, <<11546>>>>, <<4283, <<11547>>>>,
    <<4284, <<11548>>>>, <<4285, <<11549>>>>, <<4286, <<11550>>>>,
    <<4287, <<11551>>>>, <<4288, <<11552>>>>, <<4289, <<11553>>>>,
    <<4290, <<11554>>>>, <<4291, <<11555>>>>, <<4292, <<11556>>>>,
    <<4293, <<11557>>>>, <<4295, <<11559>>>>, <<4301, <<11565>>>>,
    <<5024, <<43888>>>>, <<5025, <<43889>>>>, <<5026, <<43890>>>>,
    <<5027, <<43891>>>>, <<5028, <<43892>>>>, <<5029, <<43893>>>>,
    <<5030, <<43894>>>>, <<5031, <<43895>>>>, <<5032, <<43896>>>>,
    <<5033, <<43897>>>>, <<5034, <<43898>>>>, <<5035, <<43899>>>>,
    <<5036, <<43900>>>>, <<5037, <<43901>>>>, <<5038, <<43902>>>>,
    <<5039, <<43903>>>>, <<5040, <<43904>>>>, <<5041, <<43905>>>>,
    <<5042, <<43906>>>>, <<5043, <<43907>>>>, <<5044, <<43908>>>>,
    <<5045, <<43909>>>>, <<5046, <<43910>>>>, <<5047, <<43911>>>>,
    <<5048, <<43912>>>>, <<5049, <<43913>>>>, <<5050, <<43914>>>>,
    <<5051, <<43915>>>>, <<5052, <<43916>>>>, <<5053, <<43917>>>>,
    <<5054, <<43918>>>>, <<5055, <<43919>>>>, <<5056, <<43920>>>>,
    <<5057, <<43921>>>>, <<5058, <<43922>>>>, <<5059, <<43923>>>>,
    <<5060, <<43924>>>>, <<5061, <<43925>>>>, <<5062, <<43926>>>>,
    <<5063, <<43927>>>>, <<5064, <<43928>>>>, <<5065, <<43929>>>>,
    <<5066, <<43930>>>>, <<5067, <<43931>>>>, <<5068, <<43932>>>>,
    <<5069, <<43933>>>>, <<5070, <<43934>>>>, <<5071, <<43935>>>>,
    <<5072, <<43936>>>>, <<5073, <<43937>>>>, <<5074, <<43938>>>>,
    <<5075, <<43939>>>>, <<5076, <<43940>>>>, <<5077, <<43941>>>>,
    <<5078, <<43942>>>>, <<5079, <<43943>>>>, <<5080, <<43944>>>>,
    <<5081, <<43945>>>>, <<5082, <<43946>>>>, <<5083, <<43947>>>>,
    <<5084, <<43948>>>>, <<5085, <<43949>>>>, <<5086, <<43950>>>>,
    <<5087, <<43951>>>>, <<5088, <<43952>>>>, <<5089, <<43953>>>>,
    <<5090, <<43954>>>>, <<5091, <<43955>>>>, <<5092, <<43956>>>>,
    <<5093, <<43957>>>>, <<5094, <<43958>>>>, <<5095, <<43959>>>>,
    <<5096, <<43960>>>>, <<5097, <<43961>>>>, <<5098, <<43962>>>>,
    <<5099, <<43963>>>>, <<5100, <<43964>>>>, <<5101, <<43965>>>>,
    <<5102, <<43966>>>>, <<5103, <<43967>>>>, <<5104, <<5112>>>>,
    <<5105, <<5113>>>>, <<5106, <<5114>>>>, <<5107, <<5115>>>>,
    <<5108, <<5116>>>>, <<5109, <<5117>>>>, <<7312, <<4304>>>>,
    <<7313, <<4305>>>>, <<7314, <<4306>>>>, <<7315, <<4307>>>>,
    <<7316, <<4308>>>>, <<7317, <<4309>>>>, <<7318, <<4310>>>>,
    <<7319, <<4311>>>>, <<7320, <<4312>>>>, <<7321, <<4313>>>>,
    <<7322, <<4314>>>>, <<7323, <<4315>>>>, <<7324, <<4316>>>>,
    <<7325, <<4317>>>>, <<7326, <<4318>>>>, <<7327, <<4319>>>>,
    <<7328, <<4320>>>>, <<7329, <<4321>>>>, <<7330, <<4322>>>>,
    <<7331, <<4323>>>>, <<7332, <<4324>>>>, <<7333, <<4325>>>>,
    <<7334, <<4326>>>>, <<7335, <<4327>>>>, <<7336, <<4328>>>>,
    <<7337, <<4329>>>>, <<7338, <<4330>>>>, <<7339, <<4331>>>>,
    <<7340, <<4332>>>>, <<7341, <<4333>>>>, <<7342, <<4334>>>>,
    <<7343, <<4335>>>>, <<7344, <<4336>>>>, <<7345, <<4337>>>>,
    <<7346, <<4338>>>>, <<7347, <<4339>>>>, <<7348, <<4340>>>>,
    <<7349, <<4341>>>>, <<7350, <<4342>>>>, <<7351, <<4343>>>>,
    <<7352, <<4344>>>>, <<7353, <<4345>>>>, <<7354, <<4346>>>>,
    <<7357, <<4349>>>>, <<7358, <<4350>>>>, <<7359, <<4351>>>>,
    <<7680, <<7681>>>>, <<7682, <<7683>>>>, <<7684, <<7685>>>>,
    <<7686, <<7687>>>>, <<7688, <<7689>>>>, <<7690, <<7691>>>>,
    <<7692, <<7693>>>>, <<7694, <<7695>>>>, <<7696, <<7697>>>>,
    <<7698, <<7699>>>>, <<7700, <<7701>>>>, <<7702, <<7703>>>>,
    <<7704, <<7705>>>>, <<7706, <<7707>>>>, <<7708, <<7709>>>>,
    <<7710, <<7711>>>>, <<7712, <<7713>>>>, <<7714, <<7715>>>>,
    <<7716, <<7717>>>>, <<7718, <<7719>>>>, <<7720, <<7721>>>>,
    <<7722, <<7723>>>>, <<7724, <<7725>>>>, <<7726, <<7727>>>>,
    <<7728, <<7729>>>>, <<7730, <<7731>>>>, <<7732, <<7733>>>>,
    <<7734, <<7735>>>>, <<7736, <<7737>>>>, <<7738, <<7739>>>>,
    <<7740, <<7741>>>>, <<7742, <<7743>>>>, <<7744, <<7745>>>>,
    <<7746, <<7747>>>>, <<7748, <<7749>>>>, <<7750, <<7751>>>>,
    <<7752, <<7753>>>>, <<7754, <<7755>>>>, <<7756, <<7757>>>>,
    <<7758, <<7759>>>>, <<7760, <<7761>>>>, <<7762, <<7763>>>>,
    <<7764, <<7765>>>>, <<7766, <<7767>>>>, <<7768, <<7769>>>>,
    <<7770, <<7771>>>>, <<7772, <<7773>>>>, <<7774, <<7775>>>>,
    <<7776, <<7777>>>>, <<7778, <<7779>>>>, <<7780, <<7781>>>>,
    <<7782, <<7783>>>>, <<7784, <<7785>>>>, <<7786, <<7787>>>>,
    <<7788, <<7789>>>>, <<7790, <<7791>>>>, <<7792, <<7793>>>>,
    <<7794, <<7795>>>>, <<7796, <<7797>>>>, <<7798, <<7799>>>>,
    <<7800, <<7801>>>>, <<7802, <<7803>>>>, <<7804, <<7805>>>>,
    <<7806, <<7807>>>>, <<7808, <<7809>>>>, <<7810, <<7811>>>>,
    <<7812, <<7813>>>>, <<7814, <<7815>>>>, <<7816, <<7817>>>>,
    <<7818, <<7819>>>>, <<7820, <<7821>>>>, <<7822, <<7823>>>>,
    <<7824, <<7825>>>>, <<7826, <<7827>>>>, <<7828, <<7829>>>>,
    <<7838, <<223>>>>, <<7840, <<7841>>>>, <<7842, <<7843>>>>,
    <<7844, <<7845>>>>, <<7846, <<7847>>>>, <<7848, <<7849>>>>,
    <<7850, <<7851>>>>, <<7852, <<7853>>>>, <<7854, <<7855>>>>,
    <<7856, <<7857>>>>, <<7858, <<7859>>>>, <<7860, <<7861>>>>,
    <<7862, <<7863>>>>, <<7864, <<7865>>>>, <<7866, <<7867>>>>,
    <<7868, <<7869>>>>, <<7870, <<7871>>>>, <<7872, <<7873>>>>,
    <<7874, <<7875>>>>, <<7876, <<7877>>>>, <<7878, <<7879>>>>,
    <<7880, <<7881>>>>, <<7882, <<7883>>>>, <<7884, <<7885>>>>,
    <<7886, <<7887>>>>, <<7888, <<7889>>>>, <<7890, <<7891>>>>,
    <<7892, <<7893>>>>, <<7894, <<7895>>>>, <<7896, <<7897>>>>,
    <<7898, <<7899>>>>, <<7900, <<7901>>>>, <<7902, <<7903>>>>,
    <<7904, <<7905>>>>, <<7906, <<7907>>>>, <<7908, <<7909>>>>,
    <<7910, <<7911>>>>, <<7912, <<7913>>>>, <<7914, <<7915>>>>,
    <<7916, <<7917>>>>, <<7918, <<7919>>>>, <<7920, <<7921>>>>,
    <<7922, <<7923>>>>, <<7924, <<7925>>>>, <<7926, <<7927>>>>,
    <<7928, <<7929>>>>, <<7930, <<7931>>>>, <<7932, <<7933>>>>,
    <<7934, <<7935>>>>, <<7944, <<7936>>>>, <<7945, <<7937>>>>,
    <<7946, <<7938>>>>, <<7947, <<7939>>>>, <<7948, <<7940>>>>,
    <<7949, <<7941>>>>, <<7950, <<7942>>>>, <<7951, <<7943>>>>,
    <<7960, <<7952>>>>, <<7961, <<7953>>>>, <<7962, <<7954>>>>,
    <<7963, <<7955>>>>, <<7964, <<7956>>>>, <<7965, <<7957>>>>,
    <<7976, <<7968>>>>, <<7977, <<7969>>>>, <<7978, <<7970>>>>,
    <<7979, <<7971>>>>, <<7980, <<7972>>>>, <<7981, <<7973>>>>,
    <<7982, <<7974>>>>, <<7983, <<7975>>>>, <<7992, <<7984>>>>,
    <<7993, <<7985>>>>, <<7994, <<7986>>>>, <<7995, <<7987>>>>,
    <<7996, <<7988>>>>, <<7997, <<7989>>>>, <<7998, <<7990>>>>,
    <<7999, <<7991>>>>, <<8008, <<8000>>>>, <<8009, <<8001>>>>,
    <<8010, <<8002>>>>, <<8011, <<8003>>>>, <<8012, <<8004>>>>,
    <<8013, <<8005>>>>, <<8025, <<8017>>>>, <<8027, <<8019>>>>,
    <<8029, <<8021>>>>, <<8031, <<8023>>>>, <<8040, <<8032>>>>,
    <<8041, <<8033>>>>, <<8042, <<8034>>>>, <<8043, <<8035>>>>,
    <<8044, <<8036>>>>, <<8045, <<8037>>>>, <<8046, <<8038>>>>,
    <<8047, <<8039>>>>, <<8072, <<8064>>>>, <<8073, <<8065>>>>,
    <<8074, <<8066>>>>, <<8075, <<8067>>>>, <<8076, <<8068>>>>,
    <<8077, <<8069>>>>, <<8078, <<8070>>>>, <<8079, <<8071>>>>,
    <<8088, <<8080>>>>, <<8089, <<8081>>>>, <<8090, <<8082>>>>,
    <<8091, <<8083>>>>, <<8092, <<8084>>>>, <<8093, <<8085>>>>,
    <<8094, <<8086>>>>, <<8095, <<8087>>>>, <<8104, <<8096>>>>,
    <<8105, <<8097>>>>, <<8106, <<8098>>>>, <<8107, <<8099>>>>,
    <<8108, <<8100>>>>, <<8109, <<8101>>>>, <<8110, <<8102>>>>,
    <<8111, <<8103>>>>, <<8120, <<8112>>>>, <<8121, <<8113>>>>,
    <<8122, <<8048>>>>, <<8123, <<8049>>>>, <<8124, <<8115>>>>,
    <<8136, <<8050>>>>, <<8137, <<8051>>>>, <<8138, <<8052>>>>,
    <<8139, <<8053>>>>, <<8140, <<8131>>>>, <<8152, <<8144>>>>,
    <<8153, <<8145>>>>, <<8154, <<8054>>>>, <<8155, <<8055>>>>,
    <<8168, <<8160>>>>, <<8169, <<8161>>>>, <<8170, <<8058>>>>,
    <<8171, <<8059>>>>, <<8172, <<8165>>>>, <<8184, <<8056>>>>,
    <<8185, <<8057>>>>, <<8186, <<8060>>>>, <<8187, <<8061>>>>,
    <<8188, <<8179>>>>, <<8486, <<969>>>>, <<8490, <<107>>>>,
    <<8491, <<229>>>>, <<8498, <<8526>>>>, <<8544, <<8560>>>>,
    <<8545, <<8561>>>>, <<8546, <<8562>>>>, <<8547, <<8563>>>>,
    <<8548, <<8564>>>>, <<8549, <<8565>>>>, <<8550, <<8566>>>>,
    <<8551, <<8567>>>>, <<8552, <<8568>>>>, <<8553, <<8569>>>>,
    <<8554, <<8570>>>>, <<8555, <<8571>>>>, <<8556, <<8572>>>>,
    <<8557, <<8573>>>>, <<8558, <<8574>>>>, <<8559, <<8575>>>>,
    <<8579, <<8580>>>>, <<9398, <<9424>>>>, <<9399, <<9425>>>>,
    <<9400, <<9426>>>>, <<9401, <<9427>>>>, <<9402, <<9428>>>>,
    <<9403, <<9429>>>>, <<9404, <<9430>>>>, <<9405, <<9431>>>>,
    <<9406, <<9432>>>>, <<9407, <<9433>>>>, <<9408, <<9434>>>>,
    <<9409, <<9435>>>>, <<9410, <<9436>>>>, <<9411, <<9437>>>>,
    <<9412, <<9438>>>>, <<9413, <<9439>>>>, <<9414, <<9440>>>>,
    <<9415, <<9441>>>>, <<9416, <<9442>>>>, <<9417, <<9443>>>>,
    <<9418, <<9444>>>>, <<9419, <<9445>>>>, <<9420, <<9446>>>>,
    <<9421, <<9447>>>>, <<9422, <<9448>>>>, <<9423, <<9449>>>>,
    <<11264, <<11312>>>>, <<11265, <<11313>>>>, <<11266, <<11314>>>>,
    <<11267, <<11315>>>>, <<11268, <<11316>>>>, <<11269, <<11317>>>>,
    <<11270, <<11318>>>>, <<11271, <<11319>>>>, <<11272, <<11320>>>>,
    <<11273, <<11321>>>>, <<11274, <<11322>>>>, <<11275, <<11323>>>>,
    <<11276, <<11324>>>>, <<11277, <<11325>>>>, <<11278, <<11326>>>>,
    <<11279, <<11327>>>>, <<11280, <<11328>>>>, <<11281, <<11329>>>>,
    <<11282, <<11330>>>>, <<11283, <<11331>>>>, <<11284, <<11332>>>>,
    <<11285, <<11333>>>>, <<11286, <<11334>>>>, <<11287, <<11335>>>>,
    <<11288, <<11336>>>>, <<11289, <<11337>>>>, <<11290, <<11338>>>>,
    <<11291, <<11339>>>>, <<11292, <<11340>>>>, <<11293, <<11341>>>>,
    <<11294, <<11342>>>>, <<11295, <<11343>>>>, <<11296, <<11344>>>>,
    <<11297, <<11345>>>>, <<11298, <<11346>>>>, <<11299, <<11347>>>>,
    <<11300, <<11348>>>>, <<11301, <<11349>>>>, <<11302, <<11350>>>>,
    <<11303, <<11351>>>>, <<11304, <<11352>>>>, <<11305, <<11353>>>>,
    <<11306, <<11354>>>>, <<11307, <<11355>>>>, <<11308, <<11356>>>>,
    <<11309, <<11357>>>>, <<11310, <<11358>>>>, <<11311, <<11359>>>>,
    <<11360, <<11361>>>>, <<11362, <<619>>>>, <<11363, <<7549>>>>,
    <<11364, <<637>>>>, <<11367, <<11368>>>>, <<11369, <<11370>>>>,
    <<11371, <<11372>>>>, <<11373, <<593>>>>, <<11374, <<625>>>>,
    <<11375, <<592>>>>, <<11376, <<594>>>>, <<11378, <<11379>>>>,
    <<11381, <<11382>>>>, <<11390, <<575>>>>, <<11391, <<576>>>>,
    <<11392, <<11393>>>>, <<11394, <<11395>>>>, <<11396, <<11397>>>>,
    <<11398, <<11399>>>>, <<11400, <<11401>>>>, <<11402, <<11403>>>>,
    <<11404, <<11405>>>>, <<11406, <<11407>>>>, <<11408, <<11409>>>>,
    <<11410, <<11411>>>>, <<11412, <<11413>>>>, <<11414, <<11415>>>>,
    <<11416, <<11417>>>>, <<11418, <<11419>>>>, <<11420, <<11421>>>>,
    <<11422, <<11423>>>>, <<11424, <<11425>>>>, <<11426, <<11427>>>>,
    <<11428, <<11429>>>>, <<11430, <<11431>>>>, <<11432, <<11433>>>>,
    <<11434, <<11435>>>>, <<11436, <<11437>>>>, <<11438, <<11439>>>>,
    <<11440, <<11441>>>>, <<11442, <<11443>>>>, <<11444, <<11445>>>>,
    <<11446, <<11447>>>>, <<11448, <<11449>>>>, <<11450, <<11451>>>>,
    <<11452, <<11453>>>>, <<11454, <<11455>>>>, <<11456, <<11457>>>>,
    <<11458, <<11459>>>>, <<11460, <<11461>>>>, <<11462, <<11463>>>>,
    <<11464, <<11465>>>>, <<11466, <<11467>>>>, <<11468, <<11469>>>>,
    <<11470, <<11471>>>>, <<11472, <<11473>>>>, <<11474, <<11475>>>>,
    <<11476, <<11477>>>>, <<11478, <<11479>>>>, <<11480, <<11481>>>>,
    <<11482, <<11483>>>>, <<11484, <<11485>>>>, <<11486, <<11487>>>>,
    <<11488, <<11489>>>>, <<11490, <<11491>>>>, <<11499, <<11500>>>>,
    <<11501, <<11502>>>>, <<11506, <<11507>>>>, <<42560, <<42561>>>>,
    <<42562, <<42563>>>>, <<42564, <<42565>>>>, <<42566, <<42567>>>>,
    <<42568, <<42569>>>>, <<42570, <<42571>>>>, <<42572, <<42573>>>>,
    <<42574, <<42575>>>>, <<42576, <<42577>>>>, <<42578, <<42579>>>>,
    <<42580, <<42581>>>>, <<42582, <<42583>>>>, <<42584, <<42585>>>>,
    <<42586, <<42587>>>>, <<42588, <<42589>>>>, <<42590, <<42591>>>>,
    <<42592, <<42593>>>>, <<42594, <<42595>>>>, <<42596, <<42597>>>>,
    <<42598, <<42599>>>>, <<42600, <<42601>>>>, <<42602, <<42603>>>>,
    <<42604, <<42605>>>>, <<42624, <<42625>>>>, <<42626, <<42627>>>>,
    <<42628, <<42629>>>>, <<42630, <<42631>>>>, <<42632, <<42633>>>>,
    <<42634, <<42635>>>>, <<42636, <<42637>>>>, <<42638, <<42639>>>>,
    <<42640, <<42641>>>>, <<42642, <<42643>>>>, <<42644, <<42645>>>>,
    <<42646, <<42647>>>>, <<42648, <<42649>>>>, <<42650, <<42651>>>>,
    <<42786, <<42787>>>>, <<42788, <<42789>>>>, <<42790, <<42791>>>>,
    <<42792, <<42793>>>>, <<42794, <<42795>>>>, <<42796, <<42797>>>>,
    <<42798, <<42799>>>>, <<42802, <<42803>>>>, <<42804, <<42805>>>>,
    <<42806, <<42807>>>>, <<42808, <<42809>>>>, <<42810, <<42811>>>>,
    <<42812, <<42813>>>>, <<42814, <<42815>>>>, <<42816, <<42817>>>>,
    <<42818, <<42819>>>>, <<42820, <<42821>>>>, <<42822, <<42823>>>>,
    <<42824, <<42825>>>>, <<42826, <<42827>>>>, <<42828, <<42829>>>>,
    <<42830, <<42831>>>>, <<42832, <<42833>>>>, <<42834, <<42835>>>>,
    <<42836, <<42837>>>>, <<42838, <<42839>>>>, <<42840, <<42841>>>>,
    <<42842, <<42843>>>>, <<42844, <<42845>>>>, <<42846, <<42847>>>>,
    <<42848, <<42849>>>>, <<42850, <<42851>>>>, <<42852, <<42853>>>>,
    <<42854, <<42855>>>>, <<42856, <<42857>>>>, <<42858, <<42859>>>>,
    <<42860, <<42861>>>>, <<42862, <<42863>>>>, <<42873, <<42874>>>>,
    <<42875, <<42876>>>>, <<42877, <<7545>>>>, <<42878, <<42879>>>>,
    <<42880, <<42881>>>>, <<42882, <<42883>>>>, <<42884, <<42885>>>>,
    <<42886, <<42887>>>>, <<42891, <<42892>>>>, <<42893, <<613>>>>,
    <<42896, <<42897>>>>, <<42898, <<42899>>>>, <<42902, <<42903>>>>,
    <<42904, <<42905>>>>, <<42906, <<42907>>>>, <<42908, <<42909>>>>,
    <<42910, <<42911>>>>, <<42912, <<42913>>>>, <<42914, <<42915>>>>,
    <<42916, <<42917>>>>, <<42918, <<42919>>>>, <<42920, <<42921>>>>,
    <<42922, <<614>>>>, <<42923, <<604>>>>, <<42924, <<609>>>>,
    <<42925, <<620>>>>, <<42926, <<618>>>>, <<42928, <<670>>>>,
    <<42929, <<647>>>>, <<42930, <<669>>>>, <<42931, <<43859>>>>,
    <<42932, <<42933>>>>, <<42934, <<42935>>>>, <<42936, <<42937>>>>,
    <<42938, <<42939>>>>, <<42940, <<42941>>>>, <<42942, <<42943>>>>,
    <<42944, <<42945>>>>, <<42946, <<42947>>>>, <<42948, <<42900>>>>,
    <<42949, <<642>>>>, <<42950, <<7566>>>>, <<42951, <<42952>>>>,
    <<42953, <<42954>>>>, <<42960, <<42961>>>>, <<42966, <<42967>>>>,
    <<42968, <<42969>>>>, <<42997, <<42998>>>>, <<65313, <<65345>>>>,
    <<65314, <<65346>>>>, <<65315, <<65347>>>>, <<65316, <<65348>>>>,
    <<65317, <<65349>>>>, <<65318, <<65350>>>>, <<65319, <<65351>>>>,
    <<65320, <<65352>>>>, <<65321, <<65353>>>>, <<65322, <<65354>>>>,
    <<65323, <<65355>>>>, <<65324, <<65356>>>>, <<65325, <<65357>>>>,
    <<65326, <<65358>>>>, <<65327, <<65359>>>>, <<65328, <<65360>>>>,
    <<65329, <<65361>>>>, <<65330, <<65362>>>>, <<65331, <<65363>>>>,
    <<65332, <<65364>>>>, <<65333, <<65365>>>>, <<65334, <<65366>>>>,
    <<65335, <<65367>>>>, <<65336, <<65368>>>>, <<65337, <<65369>>>>,
    <<65338, <<65370>>>>, <<66560, <<66600>>>>, <<66561, <<66601>>>>,
    <<66562, <<66602>>>>, <<66563, <<66603>>>>, <<66564, <<66604>>>>,
    <<66565, <<66605>>>>, <<66566, <<66606>>>>, <<66567, <<66607>>>>,
    <<66568, <<66608>>>>, <<66569, <<66609>>>>, <<66570, <<66610>>>>,
    <<66571, <<66611>>>>, <<66572, <<66612>>>>, <<66573, <<66613>>>>,
    <<66574, <<66614>>>>, <<66575, <<66615>>>>, <<66576, <<66616>>>>,
    <<66577, <<66617>>>>, <<66578, <<66618>>>>, <<66579, <<66619>>>>,
    <<66580, <<66620>>>>, <<66581, <<66621>>>>, <<66582, <<66622>>>>,
    <<66583, <<66623>>>>, <<66584, <<66624>>>>, <<66585, <<66625>>>>,
    <<66586, <<66626>>>>, <<66587, <<66627>>>>, <<66588, <<66628>>>>,
    <<66589, <<66629>>>>, <<66590, <<66630>>>>, <<66591, <<66631>>>>,
    <<66592, <<66632>>>>, <<66593, <<66633>>>>, <<66594, <<66634>>>>,
    <<66595, <<66635>>>>, <<66596, <<66636>>>>, <<66597, <<66637>>>>,
    <<66598, <<66638>>>>, <<66599, <<66639>>>>, <<66736, <<66776>>>>,
    <<66737, <<66777>>>>, <<66738, <<66778>>>>, <<66739, <<66779>>>>,
    <<66740, <<66780>>>>, <<66741, <<66781>>>>, <<66742, <<66782>>>>,
    <<66743, <<66783>>>>, <<66744, <<66784>>>>, <<66745, <<66785>>>>,
    <<66746, <<66786>>>>, <<66747, <<66787>>>>, <<66748, <<66788>>>>,
    <<66749, <<66789>>>>, <<66750, <<66790>>>>, <<66751, <<66791>>>>,
    <<66752, <<66792>>>>, <<66753, <<66793>>>>, <<66754, <<66794>>>>,
    <<66755, <<66795>>>>, <<66756, <<66796>>>>, <<66757, <<66797>>>>,
    <<66758, <<66798>>>>, <<66759, <<66799>>>>, <<66760, <<66800>>>>,
    <<66761, <<66801>>>>, <<66762, <<66802>>>>, <<66763, <<66803>>>>,
    <<66764, <<66804>>>>, <<66765, <<66805>>>>, <<66766, <<66806>>>>,
    <<66767, <<66807>>>>, <<66768, <<66808>>>>, <<66769, <<66809>>>>,
    <<66770, <<66810>>>>, <<66771, <<66811>>>>, <<66928, <<66967>>>>,
    <<66929, <<66968>>>>, <<66930, <<66969>>>>, <<66931, <<66970>>>>,
    <<66932, <<66971>>>>, <<66933, <<66972>>>>, <<66934, <<66973>>>>,
    <<66935, <<66974>>>>, <<66936, <<66975>>>>, <<66937, <<66976>>>>,
    <<66938, <<66977>>>>, <<66940, <<66979>>>>, <<66941, <<66980>>>>,
    <<66942, <<66981>>>>, <<66943, <<66982>>>>, <<66944, <<66983>>>>,
    <<66945, <<66984>>>>, <<66946, <<66985>>>>, <<66947, <<66986>>>>,
    <<66948, <<66987>>>>, <<66949, <<66988>>>>, <<66950, <<66989>>>>,
    <<66951, <<66990>>>>, <<66952, <<66991>>>>, <<66953, <<66992>>>>,
    <<66954, <<66993>>>>, <<66956, <<66995>>>>, <<66957, <<66996>>>>,
    <<66958, <<66997>>>>, <<66959, <<66998>>>>, <<66960, <<66999>>>>,
    <<66961, <<67000>>>>, <<66962, <<67001>>>>, <<66964, <<67003>>>>,
    <<66965, <<67004>>>>, <<68736, <<68800>>>>, <<68737, <<68801>>>>,
    <<68738, <<68802>>>>, <<68739, <<68803>>>>, <<68740, <<68804>>>>,
    <<68741, <<68805>>>>, <<68742, <<68806>>>>, <<68743, <<68807>>>>,
    <<68744, <<68808>>>>, <<68745, <<68809>>>>, <<68746, <<68810>>>>,
    <<68747, <<68811>>>>, <<68748, <<68812>>>>, <<68749, <<68813>>>>,
    <<68750, <<68814>>>>, <<68751, <<68815>>>>, <<68752, <<68816>>>>,
    <<68753, <<68817>>>>, <<68754, <<68818>>>>, <<68755, <<68819>>>>,
    <<68756, <<68820>>>>, <<68757, <<68821>>>>, <<68758, <<68822>>>>,
    <<68759, <<68823>>>>, <<68760, <<68824>>>>, <<68761, <<68825>>>>,
    <<68762, <<68826>>>>, <<68763, <<68827>>>>, <<68764, <<68828>>>>,
    <<68765, <<68829>>>>, <<68766, <<68830>>>>, <<68767, <<68831>>>>,
    <<68768, <<68832>>>>, <<68769, <<68833>>>>, <<68770, <<68834>>>>,
    <<68771, <<68835>>>>, <<68772, <<68836>>>>, <<68773, <<68837>>>>,
    <<68774, <<68838>>>>, <<68775, <<68839>>>>, <<68776, <<68840>>>>,
    <<68777, <<68841>>>>, <<68778, <<68842>>>>, <<68779, <<68843>>>>,
    <<68780, <<68844>>>>, <<68781, <<68845>>>>, <<68782, <<68846>>>>,
    <<68783, <<68847>>>>, <<68784, <<68848>>>>, <<68785, <<68849>>>>,
    <<68786, <<68850>>>>, <<71840, <<71872>>>>, <<71841, <<71873>>>>,
    <<71842, <<71874>>>>, <<71843, <<71875>>>>, <<71844, <<71876>>>>,
    <<71845, <<71877>>>>, <<71846, <<71878>>>>, <<71847, <<71879>>>>,
    <<71848, <<71880>>>>, <<71849, <<71881>>>>, <<71850, <<71882>>>>,
    <<71851, <<71883>>>>, <<71852, <<71884>>>>, <<71853, <<71885>>>>,
    <<71854, <<71886>>>>, <<71855, <<71887>>>>, <<71856, <<71888>>>>,
    <<71857, <<71889>>>>, <<71858, <<71890>>>>, <<71859, <<71891>>>>,
    <<71860, <<71892>>>>, <<71861, <<71893>>>>, <<71862, <<71894>>>>,
    <<71863, <<71895>>>>, <<71864, <<71896>>>>, <<71865, <<71897>>>>,
    <<71866, <<71898>>>>, <<71867, <<71899>>>>, <<71868, <<71900>>>>,
    <<71869, <<71901>>>>, <<71870, <<71902>>>>, <<71871, <<71903>>>>,
    <<93760, <<93792>>>>, <<93761, <<93793>>>>, <<93762, <<93794>>>>,
    <<93763, <<93795>>>>, <<93764, <<93796>>>>, <<93765, <<93797>>>>,
    <<93766, <<93798>>>>, <<93767, <<93799>>>>, <<93768, <<93800>>>>,
    <<93769, <<93801>>>>, <<93770, <<93802>>>>, <<93771, <<93803>>>>,
    <<93772, <<93804>>>>, <<93773, <<93805>>>>, <<93774, <<93806>>>>,
    <<93775, <<93807>>>>, <<93776, <<93808>>>>, <<93777, <<93809>>>>,
    <<93778, <<93810>>>>, <<93779, <<93811>>>>, <<93780, <<93812>>>>,
    <<93781, <<93813>>>>, <<93782, <<93814>>>>, <<93783, <<93815>>>>,
    <<93784, <<93816>>>>, <<93785, <<93817>>>>, <<93786, <<93818>>>>,
    <<93787, <<93819>>>>, <<93788, <<93820>>>>, <<93789, <<93821>>>>,
    <<93790, <<93822>>>>, <<93791, <<93823>>>>, <<125184, <<125218>>>>,
    <<125185, <<125219>>>>, <<125186, <<125220>>>>, <<125187, <<125221>>>>,
    <<125188, <<125222>>>>, <<125189, <<125223>>>>, <<125190, <<125224>>>>,
    <<125191, <<125225>>>>, <<125192, <<125226>>>>, <<125193, <<125227>>>>,
    <<125194, <<125228>>>>, <<125195, <<125229>>>>, <<125196, <<125230>>>>,
    <<125197, <<125231>>>>, <<125198, <<125232>>>>, <<125199, <<125233>>>>,
    <<125200, <<125234>>>>, <<125201, <<125235>>>>, <<125202, <<125236>>>>,
    <<125203, <<125237>>>>, <<125204, <<125238>>>>, <<125205, <<125239>>>>,
    <<125206, <<125240>>>>, <<125207, <<125241>>>>, <<125208, <<125242>>>>,
    <<125209, <<125243>>>>, <<125210, <<125244>>>>, <<125211, <<125245>>>>,
    <<125212, <<125246>>>>, <<125213, <<125247>>>>, <<125214, <<125248>>>>,
    <<125215, <<125249>>>>, <<125216, <<125250>>>>, <<125217, <<125251>>>>
    >>

\* str.upper of one character, where it changes the character
UPPER_TABLE ==
    <<
    <<181, <<924>>>>, <<223, <<83, 83>>>>, <<224, <<192>>>>,
    <<225, <<193>>>>, <<226, <<194>>>>, <<227, <<195>>>>, <<228, <<196>>>>,
    <<229, <<197>>>>, <<230, <<198>>>>, <<231, <<199>>>>, <<232, <<200>>>>,
    <<233, <<201>>>>, <<234, <<202>>>>, <<235, <<203>>>>, <<236, <<204>>>>,
    <<237, <<205>>>>, <<238, <<206>>>>, <<239, <<207>>>>, <<240, <<208>>>>,
    <<241, <<209>>>>, <<242, <<210>>>>, <<243, <<211>>>>, <<244, <<212>>>>,
    <<245, <<213>>>>, <<246, <<214>>>>, <<248, <<216>>>>, <<249, <<217>>>>,
    <<250, <<218>>>>, <<251, <<219>>>>, <<252, <<220>>>>, <<253, <<221>>>>,
    <<254, <<222>>>>, <<255, <<376>>>>, <<257, <<256>>>>, <<259, <<258>>>>,
    <<261, <<260>>>>, <<263, <<262>>>>, <<265, <<264>>>>, <<267, <<266>>>>,
    <<269, <<268>>>>, <<271, <<270>>>>, <<273, <<272>>>>, <<275, <<274>>>>,
    <<277, <<276>>>>, <<279, <<278>>>>, <<281, <<280>>>>, <<283, <<282>>>>,
    <<285, <<284>>>>, <<287, <<286>>>>, <<289, <<288>>>>, <<291, <<290>>>>,
    <<293, <<292>>>>, <<295, <<294>>>>, <<297, <<296>>>>, <<299, <<298>>>>,
    <<301, <<300>>>>, <<303, <<302>>>>, <<305, <<73>>>>, <<307, <<306>>>>,
    <<309, <<308>>>>, <<311, <<310>>>>, <<314, <<313>>>>, <<316, <<315>>>>,
    <<318, <<317>>>>, <<320, <<319>>>>, <<322, <<321>>>>, <<324, <<323>>>>,
    <<326, <<325>>>>, <<328, <<327>>>>, <<329, <<700, 78>>>>,
    <<331, <<330>>>>, <<333, <<332>>>>, <<335, <<334>>>>, <<337, <<336>>>>,
    <<339, <<338>>>>, <<341, <<340>>>>, <<343, <<342>>>>, <<345, <<344>>>>,
    <<347, <<346>>>>, <<349, <<348>>>>, <<351, <<350>>>>, <<353, <<352>>>>,
    <<355, <<354>>>>, <<357, <<356>>>>, <<359, <<358>>>>, <<361, <<360>>>>,
    <<363, <<362>>>>, <<365, <<364>>>>, <<367, <<366>>>>, <<369, <<368>>>>,
    <<371, <<370>>>>, <<373, <<372>>>>, <<375, <<374>>>>, <<378, <<377>>>>,
    <<380, <<379>>>>, <<382, <<381>>>>, <<383, <<83>>>>, <<384, <<579>>>>,
    <<387, <<386>>>>, <<389, <<388>>>>, <<392, <<391>>>>, <<396, <<395>>>>,
    <<402, <<401>>>>, <<405, <<502>>>>, <<409, <<408>>>>, <<410, <<573>>>>,
    <<414, <<544>>>>, <<417, <<416>>>>, <<419, <<418>>>>, <<421, <<420>>>>,
    <<424, <<423>>>>, <<429, <<428>>>>, <<432, <<431>>>>, <<436, <<435>>>>,
    <<438, <<437>>>>, <<441, <<440>>>>, <<445, <<444>>>>, <<447, <<503>>>>,
    <<453, <<452>>>>, <<454, <<452>>>>, <<456, <<455>>>>, <<457, <<455>>>>,
    <<459, <<458>>>>, <<460, <<458>>>>, <<462, <<461>>>>, <<464, <<463>>>>,
    <<466, <<465>>>>, <<468, <<467>>>>, <<470, <<469>>>>, <<472, <<471>>>>,
    <<474, <<473>>>>, <<476, <<475>>>>, <<477, <<398>>>>, <<479, <<478>>>>,
    <<481, <<480>>>>, <<483, <<482>>>>, <<485, <<484>>>>, <<487, <<486>>>>,
    <<489, <<488>>>>, <<491, <<490>>>>, <<493, <<492>>>>, <<495, <<494>>>>,
    <<496, <<74, 780>>>>, <<498, <<497>>>>, <<499, <<497>>>>,
    <<501, <<500>>>>, <<505, <<504>>>>, <<507, <<506>>>>, <<509, <<508>>>>,
    <<511, <<510>>>>, <<513, <<512>>>>, <<515, <<514>>>>, <<517, <<516>>>>,
    <<519, <<518>>>>, <<521, <<520>>>>, <<523, <<522>>>>, <<525, <<524>>>>,
    <<527, <<526>>>>, <<529, <<528>>>>, <<531, <<530>>>>, <<533, <<532>>>>,
    <<535, <<534>>>>, <<537, <<536>>>>, <<539, <<538>>>>, <<541, <<540>>>>,
    <<543, <<542>>>>, <<547, <<546>>>>, <<549, <<548>>>>, <<551, <<550>>>>,
    <<553, <<552>>>>, <<555, <<554>>>>, <<557, <<556>>>>, <<559, <<558>>>>,
    <<561, <<560>>>>, <<563, <<562>>>>, <<572, <<571>>>>, <<575, <<11390>>>>,
    <<576, <<11391>>>>, <<578, <<577>>>>, <<583, <<582>>>>, <<585, <<584>>>>,
    <<587, <<586>>>>, <<589, <<588>>>>, <<591, <<590>>>>, <<592, <<11375>>>>,
    <<593, <<11373>>>>, <<594, <<11376>>>>, <<595, <<385>>>>,
    <<596, <<390>>>>, <<598, <<393>>>>, <<599, <<394>>>>, <<601, <<399>>>>,
    <<603, <<400>>>>, <<604, <<42923>>>>, <<608, <<403>>>>,
    <<609, <<42924>>>>, <<611, <<404>>>>, <<613, <<42893>>>>,
    <<614, <<42922>>>>, <<616, <<407>>>>, <<617, <<406>>>>,
    <<618, <<42926>>>>, <<619, <<11362>>>>, <<620, <<42925>>>>,
    <<623, <<412>>>>, <<625, <<11374>>>>, <<626, <<413>>>>, <<629, <<415>>>>,
    <<637, <<11364>>>>, <<640, <<422>>>>, <<642, <<42949>>>>,
    <<643, <<425>>>>, <<647, <<42929>>>>, <<648, <<430>>>>, <<649, <<580>>>>,
    <<650, <<433>>>>, <<651, <<434>>>>, <<652, <<581>>>>, <<658, <<439>>>>,
    <<669, <<42930>>>>, <<670, <<42928>>>>, <<837, <<921>>>>,
    <<881, <<880>>>>, <<883, <<882>>>>, <<887, <<886>>>>, <<891, <<1021>>>>,
    <<892, <<1022>>>>, <<893, <<1023>>>>, <<912, <<921, 776, 769>>>>,
    <<940, <<902>>>>, <<941, <<904>>>>, <<942, <<905>>>>, <<943, <<906>>>>,
    <<944, <<933, 776, 769>>>>, <<945, <<913>>>>, <<946, <<914>>>>,
    <<947, <<915>>>>, <<948, <<916>>>>, <<949, <<917>>>>, <<950, <<918>>>>,
    <<951, <<919>>>>, <<952, <<920>>>>, <<953, <<921>>>>, <<954, <<922>>>>,
    <<955, <<923>>>>, <<956, <<924>>>>, <<957, <<925>>>>, <<958, <<926>>>>,
    <<959, <<927>>>>, <<960, <<928>>>>, <<961, <<929>>>>, <<962, <<931>>>>,
    <<963, <<931>>>>, <<964, <<932>>>>, <<965, <<933>>>>, <<966, <<934>>>>,
    <<967, <<935>>>>, <<968, <<936>>>>, <<969, <<937>>>>, <<970, <<938>>>>,
    <<971, <<939>>>>, <<972, <<908>>>>, <<973, <<910>>>>, <<974, <<911>>>>,
    <<976, <<914>>>>, <<977, <<920>>>>, <<981, <<934>>>>, <<982, <<928>>>>,
    <<983, <<975>>>>, <<985, <<984>>>>, <<987, <<986>>>>, <<989, <<988>>>>,
    <<991, <<990>>>>, <<993, <<992>>>>, <<995, <<994>>>>, <<997, <<996>>>>,
    <<999, <<998>>>>, <<1001, <<1000>>>>, <<1003, <<1002>>>>,
    <<1005, <<1004>>>>, <<1007, <<1006>>>>, <<1008, <<922>>>>,
    <<1009, <<929>>>>, <<1010, <<1017>>>>, <<1011, <<895>>>>,
    <<1013, <<917>>>>, <<1016, <<1015>>>>, <<1019, <<1018>>>>,
    <<1072, <<1040>>>>, <<1073, <<1041>>>>, <<1074, <<1042>>>>,
    <<1075, <<1043>>>>, <<1076, <<1044>>>>, <<1077, <<1045>>>>,
    <<1078, <<1046>>>>, <<1079, <<1047>>>>, <<1080, <<1048>>>>,
    <<1081, <<1049>>>>, <<1082, <<1050>>>>, <<1083, <<1051>>>>,
    <<1084, <<1052>>>>, <<1085, <<1053>>>>, <<1086, <<1054>>>>,
    <<1087, <<1055>>>>, <<1088, <<1056>>>>, <<1089, <<1057>>>>,
    <<1090, <<1058>>>>, <<1091, <<1059>>>>, <<1092, <<1060>>>>,
    <<1093, <<1061>>>>, <<1094, <<1062>>>>, <<1095, <<1063>>>>,
    <<1096, <<1064>>>>, <<1097, <<1065>>>>, <<1098, <<1066>>>>,
    <<1099, <<1067>>>>, <<1100, <<1068>>>>, <<1101, <<1069>>>>,
    <<1102, <<1070>>>>, <<1103, <<1071>>>>, <<1104, <<1024>>>>,
    <<1105, <<1025>>>>, <<1106, <<1026>>>>, <<1107, <<1027>>>>,
    <<1108, <<1028>>>>, <<1109, <<1029>>>>, <<1110, <<1030>>>>,
    <<1111, <<1031>>>>, <<1112, <<1032>>>>, <<1113, <<1033>>>>,
    <<1114, <<1034>>>>, <<1115, <<1035>>>>, <<1116, <<1036>>>>,
    <<1117, <<1037>>>>, <<1118, <<1038>>>>, <<1119, <<1039>>>>,
    <<1121, <<1120>>>>, <<1123, <<1122>>>>, <<1125, <<1124>>>>,
    <<1127, <<1126>>>>, <<1129, <<1128>>>>, <<1131, <<1130>>>>,
    <<1133, <<1132>>>>, <<1135, <<1134>>>>, <<1137, <<1136>>>>,
    <<1139, <<1138>>>>, <<1141, <<1140>>>>, <<1143, <<1142>>>>,
    <<1145, <<1144>>>>, <<1147, <<1146>>>>, <<1149, <<1148>>>>,
    <<1151, <<1150>>>>, <<1153, <<1152>>>>, <<1163, <<1162>>>>,
    <<1165, <<1164>>>>, <<1167, <<1166>>>>, <<1169, <<1168>>>>,
    <<1171, <<1170>>>>, <<1173, <<1172>>>>, <<1175, <<1174>>>>,
    <<1177, <<1176>>>>, <<1179, <<1178>>>>, <<1181, <<1180>>>>,
    <<1183, <<1182>>>>, <<1185, <<1184>>>>, <<1187, <<1186>>>>,
    <<1189, <<1188>>>>, <<1191, <<1190>>>>, <<1193, <<1192>>>>,
    <<1195, <<1194>>>>, <<1197, <<1196>>>>, <<1199, <<1198>>>>,
    <<1201, <<1200>>>>, <<1203, <<1202>>>>, <<1205, <<1204>>>>,
    <<1207, <<1206>>>>, <<1209, <<1208>>>>, <<1211, <<1210>>>>,
    <<1213, <<1212>>>>, <<1215, <<1214>>>>, <<1218, <<1217>>>>,
    <<1220, <<1219>>>>, <<1222, <<1221>>>>, <<1224, <<1223>>>>,
    <<1226, <<1225>>>>, <<1228, <<1227>>>>, <<1230, <<1229>>>>,
    <<1231, <<1216>>>>, <<1233, <<1232>>>>, <<1235, <<1234>>>>,
    <<1237, <<1236>>>>, <<1239, <<1238>>>>, <<1241, <<1240>>>>,
    <<1243, <<1242>>>>, <<1245, <<1244>>>>, <<1247, <<1246>>>>,
    <<1249, <<1248>>>>, <<1251, <<1250>>>>, <<1253, <<1252>>>>,
    <<1255, <<1254>>>>, <<1257, <<1256>>>>, <<1259, <<1258>>>>,
    <<1261, <<1260>>>>, <<1263, <<1262>>>>, <<1265, <<1264>>>>,
    <<1267, <<1266>>>>, <<1269, <<1268>>>>, <<1271, <<1270>>>>,
    <<1273, <<1272>>>>, <<1275, <<1274>>>>, <<1277, <<1276>>>>,
    <<1279, <<1278>>>>, <<1281, <<1280>>>>, <<1283, <<1282>>>>,
    <<1285, <<1284>>>>, <<1287, <<1286>>>>, <<1289, <<1288>>>>,
    <<1291, <<1290>>>>, <<1293, <<1292>>>>, <<1295, <<1294>>>>,
    <<1297, <<1296>>>>, <<1299, <<1298>>>>, <<1301, <<1300>>>>,
    <<1303, <<1302>>>>, <<1305, <<1304>>>>, <<1307, <<1306>>>>,
    <<1309, <<1308>>>>, <<1311, <<1310>>>>, <<1313, <<1312>>>>,
    <<1315, <<1314>>>>, <<1317, <<1316>>>>, <<1319, <<1318>>>>,
    <<1321, <<1320>>>>, <<1323, <<1322>>>>, <<1325, <<1324>>>>,
    <<1327, <<1326>>>>, <<1377, <<1329>>>>, <<1378, <<1330>>>>,
    <<1379, <<1331>>>>, <<1380, <<1332>>>>, <<1381, <<1333>>>>,
    <<1382, <<1334>>>>, <<1383, <<1335>>>>, <<1384, <<1336>>>>,
    <<1385, <<1337>>>>, <<1386, <<1338>>>>, <<1387, <<1339>>>>,
    <<1388, <<1340>>>>, <<1389, <<1341>>>>, <<1390, <<1342>>>>,
    <<1391, <<1343>>>>, <<1392, <<1344>>>>, <<1393, <<1345>>>>,
    <<1394, <<1346>>>>, <<1395, <<1347>>>>, <<1396, <<1348>>>>,
    <<1397, <<1349>>>>, <<1398, <<1350>>>>, <<1399, <<1351>>>>,
    <<1400, <<1352>>>>, <<1401, <<1353>>>>, <<1402, <<1354>>>>,
    <<1403, <<1355>>>>, <<1404, <<1356>>>>, <<1405, <<1357>>>>,
    <<1406, <<1358>>>>, <<1407, <<1359>>>>, <<1408, <<1360>>>>,
    <<1409, <<1361>>>>, <<1410, <<1362>>>>, <<1411, <<1363>>>>,
    <<1412, <<1364>>>>, <<1413, <<1365>>>>, <<1414, <<1366>>>>,
    <<1415, <<1333, 1362>>>>, <<4304, <<7312>>>>, <<4305, <<7313>>>>,
    <<4306, <<7314>>>>, <<4307, <<7315>>>>, <<4308, <<7316>>>>,
    <<4309, <<7317>>>>, <<4310, <<7318>>>>, <<4311, <<7319>>>>,
    <<4312, <<7320>>>>, <<4313, <<7321>>>>, <<4314, <<7322>>>>,
    <<4315, <<7323>>>>, <<4316, <<7324>>>>, <<4317, <<7325>>>>,
    <<4318, <<7326>>>>, <<4319, <<7327>>>>, <<4320, <<7328>>>>,
    <<4321, <<7329>>>>, <<4322, <<7330>>>>, <<4323, <<7331>>>>,
    <<4324, <<7332>>>>, <<4325, <<7333>>>>, <<4326, <<7334>>>>,
    <<4327, <<7335>>>>, <<4328, <<7336>>>>, <<4329, <<7337>>>>,
    <<4330, <<7338>>>>, <<4331, <<7339>>>>, <<4332, <<7340>>>>,
    <<4333, <<7341>>>>, <<4334, <<7342>>>>, <<4335, <<7343>>>>,
    <<4336, <<7344>>>>, <<4337, <<7345>>>>, <<4338, <<7346>>>>,
    <<4339, <<7347>>>>, <<4340, <<7348>>>>, <<4341, <<7349>>>>,
    <<4342, <<7350>>>>, <<4343, <<7351>>>>, <<4344, <<7352>>>>,
    <<4345, <<7353>>>>, <<4346, <<7354>>>>, <<4349, <<7357>>>>,
    <<4350, <<7358>>>>, <<4351, <<7359>>>>, <<5112, <<5104>>>>,
    <<5113, <<5105>>>>, <<5114, <<5106>>>>, <<5115, <<5107>>>>,
    <<5116, <<5108>>>>, <<5117, <<5109>>>>, <<7296, <<1042>>>>,
    <<7297, <<1044>>>>, <<7298, <<1054>>>>, <<7299, <<1057>>>>,
    <<7300, <<1058>>>>, <<7301, <<1058>>>>, <<7302, <<1066>>>>,
    <<7303, <<1122>>>>, <<7304, <<42570>>>>, <<7545, <<42877>>>>,
    <<7549, <<11363>>>>, <<7566, <<42950>>>>, <<7681, <<7680>>>>,
    <<7683, <<7682>>>>, <<7685, <<7684>>>>, <<7687, <<7686>>>>,
    <<7689, <<7688>>>>, <<7691, <<7690>>>>, <<7693, <<7692>>>>,
    <<7695, <<7694>>>>, <<7697, <<7696>>>>, <<7699, <<7698>>>>,
    <<7701, <<7700>>>>, <<7703, <<7702>>>>, <<7705, <<7704>>>>,
    <<7707, <<7706>>>>, <<7709, <<7708>>>>, <<7711, <<7710>>>>,
    <<7713, <<7712>>>>, <<7715, <<7714>>>>, <<7717, <<7716>>>>,
    <<7719, <<7718>>>>, <<7721, <<7720>>>>, <<7723, <<7722>>>>,
    <<7725, <<7724>>>>, <<7727, <<7726>>>>, <<7729, <<7728>>>>,
    <<7731, <<7730>>>>, <<7733, <<7732>>>>, <<7735, <<7734>>>>,
    <<7737, <<7736>>>>, <<7739, <<7738>>>>, <<7741, <<7740>>>>,
    <<7743, <<7742>>>>, <<7745, <<7744>>>>, <<7747, <<7746>>>>,
    <<7749, <<7748>>>>, <<7751, <<7750>>>>, <<7753, <<7752>>>>,
    <<7755, <<7754>>>>, <<7757, <<7756>>>>, <<7759, <<7758>>>>,
    <<7761, <<7760>>>>, <<7763, <<7762>>>>, <<7765, <<7764>>>>,
    <<7767, <<7766>>>>, <<7769, <<7768>>>>, <<7771, <<7770>>>>,
    <<7773, <<7772>>>>, <<7775, <<7774>>>>, <<7777, <<7776>>>>,
    <<7779, <<7778>>>>, <<7781, <<7780>>>>, <<7783, <<7782>>>>,
    <<7785, <<7784>>>>, <<7787, <<7786>>>>, <<7789, <<7788>>>>,
    <<7791, <<7790>>>>, <<7793, <<7792>>>>, <<7795, <<7794>>>>,
    <<7797, <<7796>>>>, <<7799, <<7798>>>>, <<7801, <<7800>>>>,
    <<7803, <<7802>>>>, <<7805, <<7804>>>>, <<7807, <<7806>>>>,
    <<7809, <<7808>>>>, <<7811, <<7810>>>>, <<7813, <<7812>>>>,
    <<7815, <<7814>>>>, <<7817, <<7816>>>>, <<7819, <<7818>>>>,
    <<7821, <<7820>>>>, <<7823, <<7822>>>>, <<7825, <<7824>>>>,
    <<7827, <<7826>>>>, <<7829, <<7828>>>>, <<7830, <<72, 817>>>>,
    <<7831, <<84, 776>>>>, <<7832, <<87, 778>>>>, <<7833, <<89, 778>>>>,
    <<7834, <<65, 702>>>>, <<7835, <<7776>>>>, <<7841, <<7840>>>>,
    <<7843, <<7842>>>>, <<7845, <<7844>>>>, <<7847, <<7846>>>>,
    <<7849, <<7848>>>>, <<7851, <<7850>>>>, <<7853, <<7852>>>>,
    <<7855, <<7854>>>>, <<7857, <<7856>>>>, <<7859, <<7858>>>>,
    <<7861, <<7860>>>>, <<7863, <<7862>>>>, <<7865, <<7864>>>>,
    <<7867, <<7866>>>>, <<7869, <<7868>>>>, <<7871, <<7870>>>>,
    <<7873, <<7872>>>>, <<7875, <<7874>>>>, <<7877, <<7876>>>>,
    <<7879, <<7878>>>>, <<7881, <<7880>>>>, <<7883, <<7882>>>>,
    <<7885, <<7884>>>>, <<7887, <<7886>>>>, <<7889, <<7888>>>>,
    <<7891, <<7890>>>>, <<7893, <<7892>>>>, <<7895, <<7894>>>>,
    <<7897, <<7896>>>>, <<7899, <<7898>>>>, <<7901, <<7900>>>>,
    <<7903, <<7902>>>>, <<7905, <<7904>>>>, <<7907, <<7906>>>>,
    <<7909, <<7908>>>>, <<7911, <<7910>>>>, <<7913, <<7912>>>>,
    <<7915, <<7914>>>>, <<7917, <<7916>>>>, <<7919, <<7918>>>>,
    <<7921, <<7920>>>>, <<7923, <<7922>>>>, <<7925, <<7924>>>>,
    <<7927, <<7926>>>>, <<7929, <<7928>>>>, <<7931, <<7930>>>>,
    <<7933, <<7932>>>>, <<7935, <<7934>>>>, <<7936, <<7944>>>>,
    <<7937, <<7945>>>>, <<7938, <<7946>>>>, <<7939, <<7947>>>>,
    <<7940, <<7948>>>>, <<7941, <<7949>>>>, <<7942, <<7950>>>>,
    <<7943, <<7951>>>>, <<7952, <<7960>>>>, <<7953, <<7961>>>>,
    <<7954, <<7962>>>>, <<7955, <<7963>>>>, <<7956, <<7964>>>>,
    <<7957, <<7965>>>>, <<7968, <<7976>>>>, <<7969, <<7977>>>>,
    <<7970, <<7978>>>>, <<7971, <<7979>>>>, <<7972, <<7980>>>>,
    <<7973, <<7981>>>>, <<7974, <<7982>>>>, <<7975, <<7983>>>>,
    <<7984, <<7992>>>>, <<7985, <<7993>>>>, <<7986, <<7994>>>>,
    <<7987, <<7995>>>>, <<7988, <<7996>>>>, <<7989, <<7997>>>>,
    <<7990, <<7998>>>>, <<7991, <<7999>>>>, <<8000, <<8008>>>>,
    <<8001, <<8009>>>>, <<8002, <<8010>>>>, <<8003, <<8011>>>>,
    <<8004, <<8012>>>>, <<8005, <<8013>>>>, <<8016, <<933, 787>>>>,
    <<8017, <<8025>>>>, <<8018, <<933, 787, 768>>>>, <<8019, <<8027>>>>,
    <<8020, <<933, 787, 769>>>>, <<8021, <<8029>>>>,
    <<8022, <<933, 787, 834>>>>, <<8023, <<8031>>>>, <<8032, <<8040>>>>,
    <<8033, <<8041>>>>, <<8034, <<8042>>>>, <<8035, <<8043>>>>,
    <<8036, <<8044>>>>, <<8037, <<8045>>>>, <<8038, <<8046>>>>,
    <<8039, <<8047>>>>, <<8048, <<8122>>>>, <<8049, <<8123>>>>,
    <<8050, <<8136>>>>, <<8051, <<8137>>>>, <<8052, <<8138>>>>,
    <<8053, <<8139>>>>, <<8054, <<8154>>>>, <<8055, <<8155>>>>,
    <<8056, <<8184>>>>, <<8057, <<8185>>>>, <<8058, <<8170>>>>,
    <<8059, <<8171>>>>, <<8060, <<8186>>>>, <<8061, <<8187>>>>,
    <<8064, <<7944, 921>>>>, <<8065, <<7945, 921>>>>,
    <<8066, <<7946, 921>>>>, <<8067, <<7947, 921>>>>,
    <<8068, <<7948, 921>>>>, <<8069, <<7949, 921>>>>,
    <<8070, <<7950, 921>>>>, <<8071, <<7951, 921>>>>,
    <<8072, <<7944, 921>>>>, <<8073, <<7945, 921>>>>,
    <<8074, <<7946, 921>>>>, <<8075, <<7947, 921>>>>,
    <<8076, <<7948, 921>>>>, <<8077, <<7949, 921>>>>,
    <<8078, <<7950, 921>>>>, <<8079, <<7951, 921>>>>,
    <<8080, <<7976, 921>>>>, <<8081, <<7977, 921>>>>,
    <<8082, <<7978, 921>>>>, <<8083, <<7979, 921>>>>,
    <<8084, <<7980, 921>>>>, <<8085, <<7981, 921>>>>,
    <<8086, <<7982, 921>>>>, <<8087, <<7983, 921>>>>,
    <<8088, <<7976, 921>>>>, <<8089, <<7977, 921>>>>,
    <<8090, <<7978, 921>>>>, <<8091, <<7979, 921>>>>,
    <<8092, <<7980, 921>>>>, <<8093, <<7981, 921>>>>,
    <<8094, <<7982, 921>>>>, <<8095, <<7983, 921>>>>,
    <<8096, <<8040, 921>>>>, <<8097, <<8041, 921>>>>,
    <<8098, <<8042, 921>>>>, <<8099, <<8043, 921>>>>,
    <<8100, <<8044, 921>>>>, <<8101, <<8045, 921>>>>,
    <<8102, <<8046, 921>>>>, <<8103, <<8047, 921>>>>,
    <<8104, <<8040, 921>>>>, <<8105, <<8041, 921>>>>,
    <<8106, <<8042, 921>>>>, <<8107, <<8043, 921>>>>,
    <<8108, <<8044, 921>>>>, <<8109, <<8045, 921>>>>,
    <<8110, <<8046, 921>>>>, <<8111, <<8047, 921>>>>, <<8112, <<8120>>>>,
    <<8113, <<8121>>>>, <<8114, <<8122, 921>>>>, <<8115, <<913, 921>>>>,
    <<8116, <<902, 921>>>>, <<8118, <<913, 834>>>>,
    <<8119, <<913, 834, 921>>>>, <<8124, <<913, 921>>>>, <<8126, <<921>>>>,
    <<8130, <<8138, 921>>>>, <<8131, <<919, 921>>>>, <<8132, <<905, 921>>>>,
    <<8134, <<919, 834>>>>, <<8135, <<919, 834, 921>>>>,
    <<8140, <<919, 921>>>>, <<8144, <<8152>>>>, <<8145, <<8153>>>>,
    <<8146, <<921, 776, 768>>>>, <<8147, <<921, 776, 769>>>>,
    <<8150, <<921, 834>>>>, <<8151, <<921, 776, 834>>>>, <<8160, <<8168>>>>,
    <<8161, <<8169>>>>, <<8162, <<933, 776, 768>>>>,
    <<8163, <<933, 776, 769>>>>, <<8164, <<929, 787>>>>, <<8165, <<8172>>>>,
    <<8166, <<933, 834>>>>, <<8167, <<933, 776, 834>>>>,
    <<8178, <<8186, 921>>>>, <<8179, <<937, 921>>>>, <<8180, <<911, 921>>>>,
    <<8182, <<937, 834>>>>, <<8183, <<937, 834, 921>>>>,
    <<8188, <<937, 921>>>>, <<8526, <<8498>>>>, <<8560, <<8544>>>>,
    <<8561, <<8545>>>>, <<8562, <<8546>>>>, <<8563, <<8547>>>>,
    <<8564, <<8548>>>>, <<8565, <<8549>>>>, <<8566, <<8550>>>>,
    <<8567, <<8551>>>>, <<8568, <<8552>>>>, <<8569, <<8553>>>>,
    <<8570, <<8554>>>>, <<8571, <<8555>>>>, <<8572, <<8556>>>>,
    <<8573, <<8557>>>>, <<8574, <<8558>>>>, <<8575, <<8559>>>>,
    <<8580, <<8579>>>>, <<9424, <<9398>>>>, <<9425, <<9399>>>>,
    <<9426, <<9400>>>>, <<9427, <<9401>>>>, <<9428, <<9402>>>>,
    <<9429, <<9403>>>>, <<9430, <<9404>>>>, <<9431, <<9405>>>>,
    <<9432, <<9406>>>>, <<9433, <<9407>>>>, <<9434, <<9408>>>>,
    <<9435, <<9409>>>>, <<9436, <<9410>>>>, <<9437, <<9411>>>>,
    <<9438, <<9412>>>>, <<9439, <<9413>>>>, <<9440, <<9414>>>>,
    <<9441, <<9415>>>>, <<9442, <<9416>>>>, <<9443, <<9417>>>>,
    <<9444, <<9418>>>>, <<9445, <<9419>>>>, <<9446, <<9420>>>>,
    <<9447, <<9421>>>>, <<9448, <<9422>>>>, <<9449, <<9423>>>>,
    <<11312, <<11264>>>>, <<11313, <<11265>>>>, <<11314, <<11266>>>>,
    <<11315, <<11267>>>>, <<11316, <<11268>>>>, <<11317, <<11269>>>>,
    <<11318, <<11270>>>>, <<11319, <<11271>>>>, <<11320, <<11272>>>>,
    <<11321, <<11273>>>>, <<11322, <<11274>>>>, <<11323, <<11275>>>>,
    <<11324, <<11276>>>>, <<11325, <<11277>>>>, <<11326, <<11278>>>>,
    <<11327, <<11279>>>>, <<11328, <<11280>>>>, <<11329, <<11281>>>>,
    <<11330, <<11282>>>>, <<11331, <<11283>>>>, <<11332, <<11284>>>>,
    <<11333, <<11285>>>>, <<11334, <<11286>>>>, <<11335, <<11287>>>>,
    <<11336, <<11288>>>>, <<11337, <<11289>>>>, <<11338, <<11290>>>>,
    <<11339, <<11291>>>>, <<11340, <<11292>>>>, <<11341, <<11293>>>>,
    <<11342, <<11294>>>>, <<11343, <<11295>>>>, <<11344, <<11296>>>>,
    <<11345, <<11297>>>>, <<11346, <<11298>>>>, <<11347, <<11299>>>>,
    <<11348, <<11300>>>>, <<11349, <<11301>>>>, <<11350, <<11302>>>>,
    <<11351, <<11303>>>>, <<11352, <<11304>>>>, <<11353, <<11305>>>>,
    <<11354, <<11306>>>>, <<11355, <<11307>>>>, <<11356, <<11308>>>>,
    <<11357, <<11309>>>>, <<11358, <<11310>>>>, <<11359, <<11311>>>>,
    <<11361, <<11360>>>>, <<11365, <<570>>>>, <<11366, <<574>>>>,
    <<11368, <<11367>>>>, <<11370, <<11369>>>>, <<11372, <<11371>>>>,
    <<11379, <<11378>>>>, <<11382, <<11381>>>>, <<11393, <<11392>>>>,
    <<11395, <<11394>>>>, <<11397, <<11396>>>>, <<11399, <<11398>>>>,
    <<11401, <<11400>>>>, <<11403, <<11402>>>>, <<11405, <<11404>>>>,
    <<11407, <<11406>>>>, <<11409, <<11408>>>>, <<11411, <<11410>>>>,
    <<11413, <<11412>>>>, <<11415, <<11414>>>>, <<11417, <<11416>>>>,
    <<11419, <<11418>>>>, <<11421, <<11420>>>>, <<11423, <<11422>>>>,
    <<11425, <<11424>>>>, <<11427, <<11426>>>>, <<11429, <<11428>>>>,
    <<11431, <<11430>>>>, <<11433, <<11432>>>>, <<11435, <<11434>>>>,
    <<11437, <<11436>>>>, <<11439, <<11438>>>>, <<11441, <<11440>>>>,
    <<11443, <<11442>>>>, <<11445, <<11444>>>>, <<11447, <<11446>>>>,
    <<11449, <<11448>>>>, <<11451, <<11450>>>>, <<11453, <<11452>>>>,
    <<11455, <<11454>>>>, <<11457, <<11456>>>>, <<11459, <<11458>>>>,
    <<11461, <<11460>>>>, <<11463, <<11462>>>>, <<11465, <<11464>>>>,
    <<11467, <<11466>>>>, <<11469, <<11468>>>>, <<11471, <<11470>>>>,
    <<11473, <<11472>>>>, <<11475, <<11474>>>>, <<11477, <<11476>>>>,
    <<11479, <<11478>>>>, <<11481, <<11480>>>>, <<11483, <<11482>>>>,
    <<11485, <<11484>>>>, <<11487, <<11486>>>>, <<11489, <<11488>>>>,
    <<11491, <<11490>>>>, <<11500, <<11499>>>>, <<11502, <<11501>>>>,
    <<11507, <<11506>>>>, <<11520, <<4256>>>>, <<11521, <<4257>>>>,
    <<11522, <<4258>>>>, <<11523, <<4259>>>>, <<11524, <<4260>>>>,
    <<11525, <<4261>>>>, <<11526, <<4262>>>>, <<11527, <<4263>>>>,
    <<11528, <<4264>>>>, <<11529, <<4265>>>>, <<11530, <<4266>>>>,
    <<11531, <<4267>>>>, <<11532, <<4268>>>>, <<11533, <<4269>>>>,
    <<11534, <<4270>>>>, <<11535, <<4271>>>>, <<11536, <<4272>>>>,
    <<11537, <<4273>>>>, <<11538, <<4274>>>>, <<11539, <<4275>>>>,
    <<11540, <<4276>>>>, <<11541, <<4277>>>>, <<11542, <<4278>>>>,
    <<11543, <<4279>>>>, <<11544, <<4280>>>>, <<11545, <<4281>>>>,
    <<11546, <<4282>>>>, <<11547, <<4283>>>>, <<11548, <<4284>>>>,
    <<11549, <<4285>>>>, <<11550, <<4286>>>>, <<11551, <<4287>>>>,
    <<11552, <<4288>>>>, <<11553, <<4289>>>>, <<11554, <<4290>>>>,
    <<11555, <<4291>>>>, <<11556, <<4292>>>>, <<11557, <<4293>>>>,
    <<11559, <<4295>>>>, <<11565, <<4301>>>>, <<42561, <<42560>>>>,
    <<42563, <<42562>>>>, <<42565, <<42564>>>>, <<42567, <<42566>>>>,
    <<42569, <<42568>>>>, <<42571, <<42570>>>>, <<42573, <<42572>>>>,
    <<42575, <<42574>>>>, <<42577, <<42576>>>>, <<42579, <<42578>>>>,
    <<42581, <<42580>>>>, <<42583, <<42582>>>>, <<42585, <<42584>>>>,
    <<42587, <<42586>>>>, <<42589, <<42588>>>>, <<42591, <<42590>>>>,
    <<42593, <<42592>>>>, <<42595, <<42594>>>>, <<42597, <<42596>>>>,
    <<42599, <<42598>>>>, <<42601, <<42600>>>>, <<42603, <<42602>>>>,
    <<42605, <<42604>>>>, <<42625, <<42624>>>>, <<42627, <<42626>>>>,
    <<42629, <<42628>>>>, <<42631, <<42630>>>>, <<42633, <<42632>>>>,
    <<42635, <<42634>>>>, <<42637, <<42636>>>>, <<42639, <<42638>>>>,
    <<42641, <<42640>>>>, <<42643, <<42642>>>>, <<42645, <<42644>>>>,
    <<42647, <<42646>>>>, <<42649, <<42648>>>>, <<42651, <<42650>>>>,
    <<42787, <<42786>>>>, <<42789, <<42788>>>>, <<42791, <<42790>>>>,
    <<42793, <<42792>>>>, <<42795, <<42794>>>>, <<42797, <<42796>>>>,
    <<42799, <<42798>>>>, <<42803, <<42802>>>>, <<42805, <<42804>>>>,
    <<42807, <<42806>>>>, <<42809, <<42808>>>>, <<42811, <<42810>>>>,
    <<42813, <<42812>>>>, <<42815, <<42814>>>>, <<42817, <<42816>>>>,
    <<42819, <<42818>>>>, <<42821, <<42820>>>>, <<42823, <<42822>>>>,
    <<42825, <<42824>>>>, <<42827, <<42826>>>>, <<42829, <<42828>>>>,
    <<42831, <<42830>>>>, <<42833, <<42832>>>>, <<42835, <<42834>>>>,
    <<42837, <<42836>>>>, <<42839, <<42838>>>>, <<42841, <<42840>>>>,
    <<42843, <<42842>>>>, <<42845, <<42844>>>>, <<42847, <<42846>>>>,
    <<42849, <<42848>>>>, <<42851, <<42850>>>>, <<42853, <<42852>>>>,
    <<42855, <<42854>>>>, <<42857, <<42856>>>>, <<42859, <<42858>>>>,
    <<42861, <<42860>>>>, <<42863, <<42862>>>>, <<42874, <<42873>>>>,
    <<42876, <<42875>>>>, <<42879, <<42878>>>>, <<42881, <<42880>>>>,
    <<42883, <<42882>>>>, <<42885, <<42884>>>>, <<42887, <<42886>>>>,
    <<42892, <<42891>>>>, <<42897, <<42896>>>>, <<42899, <<42898>>>>,
    <<42900, <<42948>>>>, <<42903, <<42902>>>>, <<42905, <<42904>>>>,
    <<42907, <<42906>>>>, <<42909, <<42908>>>>, <<42911, <<42910>>>>,
    <<42913, <<42912>>>>, <<42915, <<42914>>>>, <<42917, <<42916>>>>,
    <<42919, <<42918>>>>, <<42921, <<42920>>>>, <<42933, <<42932>>>>,
    <<42935, <<42934>>>>, <<42937, <<42936>>>>, <<42939, <<42938>>>>,
    <<42941, <<42940>>>>, <<42943, <<42942>>>>, <<42945, <<42944>>>>,
    <<42947, <<42946>>>>, <<42952, <<42951>>>>, <<42954, <<42953>>>>,
    <<42961, <<42960>>>>, <<42967, <<42966>>>>, <<42969, <<42968>>>>,
    <<42998, <<42997>>>>, <<43859, <<42931>>>>, <<43888, <<5024>>>>,
    <<43889, <<5025>>>>, <<43890, <<5026>>>>, <<43891, <<5027>>>>,
    <<43892, <<5028>>>>, <<43893, <<5029>>>>, <<43894, <<5030>>>>,
    <<43895, <<5031>>>>, <<43896, <<5032>>>>, <<43897, <<5033>>>>,
    <<43898, <<5034>>>>, <<43899, <<5035>>>>, <<43900, <<5036>>>>,
    <<43901, <<5037>>>>, <<43902, <<5038>>>>, <<43903, <<5039>>>>,
    <<43904, <<5040>>>>, <<43905, <<5041>>>>, <<43906, <<5042>>>>,
    <<43907, <<5043>>>>, <<43908, <<5044>>>>, <<43909, <<5045>>>>,
    <<43910, <<5046>>>>, <<43911, <<5047>>>>, <<43912, <<5048>>>>,
    <<43913, <<5049>>>>, <<43914, <<5050>>>>, <<43915, <<5051>>>>,
    <<43916, <<5052>>>>, <<43917, <<5053>>>>, <<43918, <<5054>>>>,
    <<43919, <<5055>>>>, <<43920, <<5056>>>>, <<43921, <<5057>>>>,
    <<43922, <<5058>>>>, <<43923, <<5059>>>>, <<43924, <<5060>>>>,
    <<43925, <<5061>>>>, <<43926, <<5062>>>>, <<43927, <<5063>>>>,
    <<43928, <<5064>>>>, <<43929, <<5065>>>>, <<43930, <<5066>>>>,
    <<43931, <<5067>>>>, <<43932, <<5068>>>>, <<43933, <<5069>>>>,
    <<43934, <<5070>>>>, <<43935, <<5071>>>>, <<43936, <<5072>>>>,
    <<43937, <<5073>>>>, <<43938, <<5074>>>>, <<43939, <<5075>>>>,
    <<43940, <<5076>>>>, <<43941, <<5077>>>>, <<43942, <<5078>>>>,
    <<43943, <<5079>>>>, <<43944, <<5080>>>>, <<43945, <<5081>>>>,
    <<43946, <<5082>>>>, <<43947, <<5083>>>>, <<43948, <<5084>>>>,
    <<43949, <<5085>>>>, <<43950, <<5086>>>>, <<43951, <<5087>>>>,
    <<43952, <<5088>>>>, <<43953, <<5089>>>>, <<43954, <<5090>>>>,
    <<43955, <<5091>>>>, <<43956, <<5092>>>>, <<43957, <<5093>>>>,
    <<43958, <<5094>>>>, <<43959, <<5095>>>>, <<43960, <<5096>>>>,
    <<43961, <<5097>>>>, <<43962, <<5098>>>>, <<43963, <<5099>>>>,
    <<43964, <<5100>>>>, <<43965, <<5101>>>>, <<43966, <<5102>>>>,
    <<43967, <<5103>>>>, <<64256, <<70, 70>>>>, <<64257, <<70, 73>>>>,
    <<64258, <<70, 76>>>>, <<64259, <<70, 70, 73>>>>,
    <<64260, <<70, 70, 76>>>>, <<64261, <<83, 84>>>>, <<64262, <<83, 84>>>>,
    <<64275, <<1348, 1350>>>>, <<64276, <<1348, 1333>>>>,
    <<64277, <<1348, 1339>>>>, <<64278, <<1358, 1350>>>>,
    <<64279, <<1348, 1341>>>>, <<65345, <<65313>>>>, <<65346, <<65314>>>>,
    <<65347, <<65315>>>>, <<65348, <<65316>>>>, <<65349, <<65317>>>>,
    <<65350, <<65318>>>>, <<65351, <<65319>>>>, <<65352, <<65320>>>>,
    <<65353, <<65321>>>>, <<65354, <<65322>>>>, <<65355, <<65323>>>>,
    <<65356, <<65324>>>>, <<65357, <<65325>>>>, <<65358, <<65326>>>>,
    <<65359, <<65327>>>>, <<65360, <<65328>>>>, <<65361, <<65329>>>>,
    <<65362, <<65330>>>>, <<65363, <<65331>>>>, <<65364, <<65332>>>>,
    <<65365, <<65333>>>>, <<65366, <<65334>>>>, <<65367, <<65335>>>>,
    <<65368, <<65336>>>>, <<65369, <<65337>>>>, <<65370, <<65338>>>>,
    <<66600, <<66560>>>>, <<66601, <<66561>>>>, <<66602, <<66562>>>>,
    <<66603, <<66563>>>>, <<66604, <<66564>>>>, <<66605, <<66565>>>>,
    <<66606, <<66566>>>>, <<66607, <<66567>>>>, <<66608, <<66568>>>>,
    <<66609, <<66569>>>>, <<66610, <<66570>>>>, <<66611, <<66571>>>>,
    <<66612, <<66572>>>>, <<66613, <<66573>>>>, <<66614, <<66574>>>>,
    <<66615, <<66575>>>>, <<66616, <<66576>>>>, <<66617, <<66577>>>>,
    <<66618, <<66578>>>>, <<66619, <<66579>>>>, <<66620, <<66580>>>>,
    <<66621, <<66581>>>>, <<66622, <<66582>>>>, <<66623, <<66583>>>>,
    <<66624, <<66584>>>>, <<66625, <<66585>>>>, <<66626, <<66586>>>>,
    <<66627, <<66587>>>>, <<66628, <<66588>>>>, <<66629, <<66589>>>>,
    <<66630, <<66590>>>>, <<66631, <<66591>>>>, <<66632, <<66592>>>>,
    <<66633, <<66593>>>>, <<66634, <<66594>>>>, <<66635, <<66595>>>>,
    <<66636, <<66596>>>>, <<66637, <<66597>>>>, <<66638, <<66598>>>>,
    <<66639, <<66599>>>>, <<66776, <<66736>>>>, <<66777, <<66737>>>>,
    <<66778, <<66738>>>>, <<66779, <<66739>>>>, <<66780, <<66740>>>>,
    <<66781, <<66741>>>>, <<66782, <<66742>>>>, <<66783, <<66743>>>>,
    <<66784, <<66744>>>>, <<66785, <<66745>>>>, <<66786, <<66746>>>>,
    <<66787, <<66747>>>>, <<66788, <<66748>>>>, <<66789, <<66749>>>>,
    <<66790, <<66750>>>>, <<66791, <<66751>>>>, <<66792, <<66752>>>>,
    <<66793, <<66753>>>>, <<66794, <<66754>>>>, <<66795, <<66755>>>>,
    <<66796, <<66756>>>>, <<66797, <<66757>>>>, <<66798, <<66758>>>>,
    <<66799, <<66759>>>>, <<66800, <<66760>>>>, <<66801, <<66761>>>>,
    <<66802, <<66762>>>>, <<66803, <<66763>>>>, <<66804, <<66764>>>>,
    <<66805, <<66765>>>>, <<66806, <<66766>>>>, <<66807, <<66767>>>>,
    <<66808, <<66768>>>>, <<66809, <<66769>>>>, <<66810, <<66770>>>>,
    <<66811, <<66771>>>>, <<66967, <<66928>>>>, <<66968, <<66929>>>>,
    <<66969, <<66930>>>>, <<66970, <<66931>>>>, <<66971, <<66932>>>>,
    <<66972, <<66933>>>>, <<66973, <<66934>>>>, <<66974, <<66935>>>>,
    <<66975, <<66936>>>>, <<66976, <<66937>>>>, <<66977, <<66938>>>>,
    <<66979, <<66940>>>>, <<66980, <<66941>>>>, <<66981, <<66942>>>>,
    <<66982, <<66943>>>>, <<66983, <<66944>>>>, <<66984, <<66945>>>>,
    <<66985, <<66946>>>>, <<66986, <<66947>>>>, <<66987, <<66948>>>>,
    <<66988, <<66949>>>>, <<66989, <<66950>>>>, <<66990, <<66951>>>>,
    <<66991, <<66952>>>>, <<66992, <<66953>>>>, <<66993, <<66954>>>>,
    <<66995, <<66956>>>>, <<66996, <<66957>>>>, <<66997, <<66958>>>>,
    <<66998, <<66959>>>>, <<66999, <<66960>>>>, <<67000, <<66961>>>>,
    <<67001, <<66962>>>>, <<67003, <<66964>>>>, <<67004, <<66965>>>>,
    <<68800, <<68736>>>>, <<68801, <<68737>>>>, <<68802, <<68738>>>>,
    <<68803, <<68739>>>>, <<68804, <<68740>>>>, <<68805, <<68741>>>>,
    <<68806, <<68742>>>>, <<68807, <<68743>>>>, <<68808, <<68744>>>>,
    <<68809, <<68745>>>>, <<68810, <<68746>>>>, <<68811, <<68747>>>>,
    <<68812, <<68748>>>>, <<68813, <<68749>>>>, <<68814, <<68750>>>>,
    <<68815, <<68751>>>>, <<68816, <<68752>>>>, <<68817, <<68753>>>>,
    <<68818, <<68754>>>>, <<68819, <<68755>>>>, <<68820, <<68756>>>>,
    <<68821, <<68757>>>>, <<68822, <<68758>>>>, <<68823, <<68759>>>>,
    <<68824, <<68760>>>>, <<68825, <<68761>>>>, <<68826, <<68762>>>>,
    <<68827, <<68763>>>>, <<68828, <<68764>>>>, <<68829, <<68765>>>>,
    <<68830, <<68766>>>>, <<68831, <<68767>>>>, <<68832, <<68768>>>>,
    <<68833, <<68769>>>>, <<68834, <<68770>>>>, <<68835, <<68771>>>>,
    <<68836, <<68772>>>>, <<68837, <<68773>>>>, <<68838, <<68774>>>>,
    <<68839, <<68775>>>>, <<68840, <<68776>>>>, <<68841, <<68777>>>>,
    <<68842, <<68778>>>>, <<68843, <<68779>>>>, <<68844, <<68780>>>>,
    <<68845, <<68781>>>>, <<68846, <<68782>>>>, <<68847, <<68783>>>>,
    <<68848, <<68784>>>>, <<68849, <<68785>>>>, <<68850, <<68786>>>>,
    <<71872, <<71840>>>>, <<71873, <<71841>>>>, <<71874, <<71842>>>>,
    <<71875, <<71843>>>>, <<71876, <<71844>>>>, <<71877, <<71845>>>>,
    <<71878, <<71846>>>>, <<71879, <<71847>>>>, <<71880, <<71848>>>>,
    <<71881, <<71849>>>>, <<71882, <<71850>>>>, <<71883, <<71851>>>>,
    <<71884, <<71852>>>>, <<71885, <<71853>>>>, <<71886, <<71854>>>>,
    <<71887, <<71855>>>>, <<71888, <<71856>>>>, <<71889, <<71857>>>>,
    <<71890, <<71858>>>>, <<71891, <<71859>>>>, <<71892, <<71860>>>>,
    <<71893, <<71861>>>>, <<71894, <<71862>>>>, <<71895, <<71863>>>>,
    <<71896, <<71864>>>>, <<71897, <<71865>>>>, <<71898, <<71866>>>>,
    <<71899, <<71867>>>>, <<71900, <<71868>>>>, <<71901, <<71869>>>>,
    <<71902, <<71870>>>>, <<71903, <<71871>>>>, <<93792, <<93760>>>>,
    <<93793, <<93761>>>>, <<93794, <<93762>>>>, <<93795, <<93763>>>>,
    <<93796, <<93764>>>>, <<93797, <<93765>>>>, <<93798, <<93766>>>>,
    <<93799, <<93767>>>>, <<93800, <<93768>>>>, <<93801, <<93769>>>>,
    <<93802, <<93770>>>>, <<93803, <<93771>>>>, <<93804, <<93772>>>>,
    <<93805, <<93773>>>>, <<93806, <<93774>>>>, <<93807, <<93775>>>>,
    <<93808, <<93776>>>>, <<93809, <<93777>>>>, <<93810, <<93778>>>>,
    <<93811, <<93779>>>>, <<93812, <<93780>>>>, <<93813, <<93781>>>>,
    <<93814, <<93782>>>>, <<93815, <<93783>>>>, <<93816, <<93784>>>>,
    <<93817, <<93785>>>>, <<93818, <<93786>>>>, <<93819, <<93787>>>>,
    <<93820, <<93788>>>>, <<93821, <<93789>>>>, <<93822, <<93790>>>>,
    <<93823, <<93791>>>>, <<125218, <<125184>>>>, <<125219, <<125185>>>>,
    <<125220, <<125186>>>>, <<125221, <<125187>>>>, <<125222, <<125188>>>>,
    <<125223, <<125189>>>>, <<125224, <<125190>>>>, <<125225, <<125191>>>>,
    <<125226, <<125192>>>>, <<125227, <<125193>>>>, <<125228, <<125194>>>>,
    <<125229, <<125195>>>>, <<125230, <<125196>>>>, <<125231, <<125197>>>>,
    <<125232, <<125198>>>>, <<125233, <<125199>>>>, <<125234, <<125200>>>>,
    <<125235, <<125201>>>>, <<125236, <<125202>>>>, <<125237, <<125203>>>>,
    <<125238, <<125204>>>>, <<125239, <<125205>>>>, <<125240, <<125206>>>>,
    <<125241, <<125207>>>>, <<125242, <<125208>>>>, <<125243, <<125209>>>>,
    <<125244, <<125210>>>>, <<125245, <<125211>>>>, <<125246, <<125212>>>>,
    <<125247, <<125213>>>>, <<125248, <<125214>>>>, <<125249, <<125215>>>>,
    <<125250, <<125216>>>>, <<125251, <<125217>>>>
    >>

\* the case-ignorable characters, which str.lower skips around a capital
\* sigma, and the cased characters among the others
CASE_IGNORABLE_RANGES ==
    <<
    <<39, 39>>, <<46, 46>>, <<58, 58>>, <<94, 94>>, <<96, 96>>, <<168, 168>>,
    <<173, 173>>, <<175, 175>>, <<180, 180>>, <<183, 184>>, <<688, 879>>,
    <<884, 885>>, <<890, 890>>, <<900, 901>>, <<903, 903>>, <<1155, 1161>>,
    <<1369, 1369>>, <<1375, 1375>>, <<1425, 1469>>, <<1471, 1471>>,
    <<1473, 1474>>, <<1476, 1477>>, <<1479, 1479>>, <<1524, 1524>>,
    <<1536, 1541>>, <<1552, 1562>>, <<1564, 1564>>, <<1600, 1600>>,
    <<1611, 1631>>, <<1648, 1648>>, <<1750, 1757>>, <<1759, 1768>>,
    <<1770, 1773>>, <<1807, 1807>>, <<1809, 1809>>, <<1840, 1866>>,
    <<1958, 1968>>, <<2027, 2037>>, <<2042, 2042>>, <<2045, 2045>>,
    <<2070, 2093>>, <<2137, 2139>>, <<2184, 2184>>, <<2192, 2193>>,
    <<2200, 2207>>, <<2249, 2306>>, <<2362, 2362>>, <<2364, 2364>>,
    <<2369, 2376>>, <<2381, 2381>>, <<2385, 2391>>, <<2402, 2403>>,
    <<2417, 2417>>, <<2433, 2433>>, <<2492, 2492>>, <<2497, 2500>>,
    <<2509, 2509>>, <<2530, 2531>>, <<2558, 2558>>, <<2561, 2562>>,
    <<2620, 2620>>, <<2625, 2626>>, <<2631, 2632>>, <<2635, 2637>>,
    <<2641, 2641>>, <<2672, 2673>>, <<2677, 2677>>, <<2689, 2690>>,
    <<2748, 2748>>, <<2753, 2757>>, <<2759, 2760>>, <<2765, 2765>>,
    <<2786, 2787>>, <<2810, 2815>>, <<2817, 2817>>, <<2876, 2876>>,
    <<2879, 2879>>, <<2881, 2884>>, <<2893, 2893>>, <<2901, 2902>>,
    <<2914, 2915>>, <<2946, 2946>>, <<3008, 3008>>, <<3021, 3021>>,
    <<3072, 3072>>, <<3076, 3076>>, <<3132, 3132>>, <<3134, 3136>>,
    <<3142, 3144>>, <<3146, 3149>>, <<3157, 3158>>, <<3170, 3171>>,
    <<3201, 3201>>, <<3260, 3260>>, <<3263, 3263>>, <<3270, 3270>>,
    <<3276, 3277>>, <<3298, 3299>>, <<3328, 3329>>, <<3387, 3388>>,
    <<3393, 3396>>, <<3405, 3405>>, <<3426, 3427>>, <<3457, 3457>>,
    <<3530, 3530>>, <<3538, 3540>>, <<3542, 3542>>, <<3633, 3633>>,
    <<3636, 3642>>, <<3654, 3662>>, <<3761, 3761>>, <<3764, 3772>>,
    <<3782, 3782>>, <<3784, 3789>>, <<3864, 3865>>, <<3893, 3893>>,
    <<3895, 3895>>, <<3897, 3897>>, <<3953, 3966>>, <<3968, 3972>>,
    <<3974, 3975>>, <<3981, 3991>>, <<3993, 4028>>, <<4038, 4038>>,
    <<4141, 4144>>, <<4146, 4151>>, <<4153, 4154>>, <<4157, 4158>>,
    <<4184, 4185>>, <<4190, 4192>>, <<4209, 4212>>, <<4226, 4226>>,
    <<4229, 4230>>, <<4237, 4237>>, <<4253, 4253>>, <<4348, 4348>>,
    <<4957, 4959>>, <<5906, 5908>>, <<5938, 5939>>, <<5970, 5971>>,
    <<6002, 6003>>, <<6068, 6069>>, <<6071, 6077>>, <<6086, 6086>>,
    <<6089, 6099>>, <<6103, 6103>>, <<6109, 6109>>, <<6155, 6159>>,
    <<6211, 6211>>, <<6277, 6278>>, <<6313, 6313>>, <<6432, 6434>>,
    <<6439, 6440>>, <<6450, 6450>>, <<6457, 6459>>, <<6679, 6680>>,
    <<6683, 6683>>, <<6742, 6742>>, <<6744, 6750>>, <<6752, 6752>>,
    <<6754, 6754>>, <<6757, 6764>>, <<6771, 6780>>, <<6783, 6783>>,
    <<6823, 6823>>, <<6832, 6862>>, <<6912, 6915>>, <<6964, 6964>>,
    <<6966, 6970>>, <<6972, 6972>>, <<6978, 6978>>, <<7019, 7027>>,
    <<7040, 7041>>, <<7074, 7077>>, <<7080, 7081>>, <<7083, 7085>>,
    <<7142, 7142>>, <<7144, 7145>>, <<7149, 7149>>, <<7151, 7153>>,
    <<7212, 7219>>, <<7222, 7223>>, <<7288, 7293>>, <<7376, 7378>>,
    <<7380, 7392>>, <<7394, 7400>>, <<7405, 7405>>, <<7412, 7412>>,
    <<7416, 7417>>, <<7468, 7530>>, <<7544, 7544>>, <<7579, 7679>>,
    <<8125, 8125>>, <<8127, 8129>>, <<8141, 8143>>, <<8157, 8159>>,
    <<8173, 8175>>, <<8189, 8190>>, <<8203, 8207>>, <<8216, 8217>>,
    <<8228, 8228>>, <<8231, 8231>>, <<8234, 8238>>, <<8288, 8292>>,
    <<8294, 8303>>, <<8305, 8305>>, <<8319, 8319>>, <<8336, 8348>>,
    <<8400, 8432>>, <<11388, 11389>>, <<11503, 11505>>, <<11631, 11631>>,
    <<11647, 11647>>, <<11744, 11775>>, <<11823, 11823>>, <<12293, 12293>>,
    <<12330, 12333>>, <<12337, 12341>>, <<12347, 12347>>, <<12441, 12446>>,
    <<12540, 12542>>, <<40981, 40981>>, <<42232, 42237>>, <<42508, 42508>>,
    <<42607, 42610>>, <<42612, 42621>>, <<42623, 42623>>, <<42652, 42655>>,
    <<42736, 42737>>, <<42752, 42785>>, <<42864, 42864>>, <<42888, 42890>>,
    <<42994, 42996>>, <<43000, 43001>>, <<43010, 43010>>, <<43014, 43014>>,
    <<43019, 43019>>, <<43045, 43046>>, <<43052, 43052>>, <<43204, 43205>>,
    <<43232, 43249>>, <<43263, 43263>>, <<43302, 43309>>, <<43335, 43345>>,
    <<43392, 43394>>, <<43443, 43443>>, <<43446, 43449>>, <<43452, 43453>>,
    <<43471, 43471>>, <<43493, 43494>>, <<43561, 43566>>, <<43569, 43570>>,
    <<43573, 43574>>, <<43587, 43587>>, <<43596, 43596>>, <<43632, 43632>>,
    <<43644, 43644>>, <<43696, 43696>>, <<43698, 43700>>, <<43703, 43704>>,
    <<43710, 43711>>, <<43713, 43713>>, <<43741, 43741>>, <<43756, 43757>>,
    <<43763, 43764>>, <<43766, 43766>>, <<43867, 43871>>, <<43881, 43883>>,
    <<44005, 44005>>, <<44008, 44008>>, <<44013, 44013>>, <<64286, 64286>>,
    <<64434, 64450>>, <<65024, 65039>>, <<65043, 65043>>, <<65056, 65071>>,
    <<65106, 65106>>, <<65109, 65109>>, <<65279, 65279>>, <<65287, 65287>>,
    <<65294, 65294>>, <<65306, 65306>>, <<65342, 65342>>, <<65344, 65344>>,
    <<65392, 65392>>, <<65438, 65439>>, <<65507, 65507>>, <<65529, 65531>>,
    <<66045, 66045>>, <<66272, 66272>>, <<66422, 66426>>, <<67456, 67461>>,
    <<67463, 67504>>, <<67506, 67514>>, <<68097, 68099>>, <<68101, 68102>>,
    <<68108, 68111>>, <<68152, 68154>>, <<68159, 68159>>, <<68325, 68326>>,
    <<68900, 68903>>, <<69291, 69292>>, <<69446, 69456>>, <<69506, 69509>>,
    <<69633, 69633>>, <<69688, 69702>>, <<69744, 69744>>, <<69747, 69748>>,
    <<69759, 69761>>, <<69811, 69814>>, <<69817, 69818>>, <<69821, 69821>>,
    <<69826, 69826>>, <<69837, 69837>>, <<69888, 69890>>, <<69927, 69931>>,
    <<69933, 69940>>, <<70003, 70003>>, <<70016, 70017>>, <<70070, 70078>>,
    <<70089, 70092>>, <<70095, 70095>>, <<70191, 70193>>, <<70196, 70196>>,
    <<70198, 70199>>, <<70206, 70206>>, <<70367, 70367>>, <<70371, 70378>>,
    <<70400, 70401>>, <<70459, 70460>>, <<70464, 70464>>, <<70502, 70508>>,
    <<70512, 70516>>, <<70712, 70719>>, <<70722, 70724>>, <<70726, 70726>>,
    <<70750, 70750>>, <<70835, 70840>>, <<70842, 70842>>, <<70847, 70848>>,
    <<70850, 70851>>, <<71090, 71093>>, <<71100, 71101>>, <<71103, 71104>>,
    <<71132, 71133>>, <<71219, 71226>>, <<71229, 71229>>, <<71231, 71232>>,
    <<71339, 71339>>, <<71341, 71341>>, <<71344, 71349>>, <<71351, 71351>>,
    <<71453, 71455>>, <<71458, 71461>>, <<71463, 71467>>, <<71727, 71735>>,
    <<71737, 71738>>, <<71995, 71996>>, <<71998, 71998>>, <<72003, 72003>>,
    <<72148, 72151>>, <<72154, 72155>>, <<72160, 72160>>, <<72193, 72202>>,
    <<72243, 72248>>, <<72251, 72254>>, <<72263, 72263>>, <<72273, 72278>>,
    <<72281, 72283>>, <<72330, 72342>>, <<72344, 72345>>, <<72752, 72758>>,
    <<72760, 72765>>, <<72767, 72767>>, <<72850, 72871>>, <<72874, 72880>>,
    <<72882, 72883>>, <<72885, 72886>>, <<73009, 73014>>, <<73018, 73018>>,
    <<73020, 73021>>, <<73023, 73029>>, <<73031, 73031>>, <<73104, 73105>>,
    <<73109, 73109>>, <<73111, 73111>>, <<73459, 73460>>, <<78896, 78904>>,
    <<92912, 92916>>, <<92976, 92982>>, <<92992, 92995>>, <<94031, 94031>>,
    <<94095, 94111>>, <<94176, 94177>>, <<94179, 94180>>, <<110576, 110579>>,
    <<110581, 110587>>, <<110589, 110590>>, <<113821, 113822>>,
    <<113824, 113827>>, <<118528, 118573>>, <<118576, 118598>>,
    <<119143, 119145>>, <<119155, 119170>>, <<119173, 119179>>,
    <<119210, 119213>>, <<119362, 119364>>, <<121344, 121398>>,
    <<121403, 121452>>, <<121461, 121461>>, <<121476, 121476>>,
    <<121499, 121503>>, <<121505, 121519>>, <<122880, 122886>>,
    <<122888, 122904>>, <<122907, 122913>>, <<122915, 122916>>,
    <<122918, 122922>>, <<123184, 123197>>, <<123566, 123566>>,
    <<123628, 123631>>, <<125136, 125142>>, <<125252, 125259>>,
    <<127995, 127999>>, <<917505, 917505>>, <<917536, 917631>>,
    <<917760, 917999>>
    >>

CASED_RANGES ==
    <<
    <<65, 90>>, <<97, 122>>, <<170, 170>>, <<181, 181>>, <<186, 186>>,
    <<192, 214>>, <<216, 246>>, <<248, 442>>, <<444, 447>>, <<452, 659>>,
    <<661, 687>>, <<880, 883>>, <<886, 887>>, <<891, 893>>, <<895, 895>>,
    <<902, 902>>, <<904, 906>>, <<908, 908>>, <<910, 929>>, <<931, 1013>>,
    <<1015, 1153>>, <<1162, 1327>>, <<1329, 1366>>, <<1376, 1416>>,
    <<4256, 4293>>, <<4295, 4295>>, <<4301, 4301>>, <<4304, 4346>>,
    <<4349, 4351>>, <<5024, 5109>>, <<5112, 5117>>, <<7296, 7304>>,
    <<7312, 7354>>, <<7357, 7359>>, <<7424, 7467>>, <<7531, 7543>>,
    <<7545, 7578>>, <<7680, 7957>>, <<7960, 7965>>, <<7968, 8005>>,
    <<8008, 8013>>, <<8016, 8023>>, <<8025, 8025>>, <<8027, 8027>>,
    <<8029, 8029>>, <<8031, 8061>>, <<8064, 8116>>, <<8118, 8124>>,
    <<8126, 8126>>, <<8130, 8132>>, <<8134, 8140>>, <<8144, 8147>>,
    <<8150, 8155>>, <<8160, 8172>>, <<8178, 8180>>, <<8182, 8188>>,
    <<8450, 8450>>, <<8455, 8455>>, <<8458, 8467>>, <<8469, 8469>>,
    <<8473, 8477>>, <<8484, 8484>>, <<8486, 8486>>, <<8488, 8488>>,
    <<8490, 8493>>, <<8495, 8500>>, <<8505, 8505>>, <<8508, 8511>>,
    <<8517, 8521>>, <<8526, 8526>>, <<8544, 8575>>, <<8579, 8580>>,
    <<9398, 9449>>, <<11264, 11387>>, <<11390, 11492>>, <<11499, 11502>>,
    <<11506, 11507>>, <<11520, 11557>>, <<11559, 11559>>, <<11565, 11565>>,
    <<42560, 42605>>, <<42624, 42651>>, <<42786, 42863>>, <<42865, 42887>>,
    <<42891, 42894>>, <<42896, 42954>>, <<42960, 42961>>, <<42963, 42963>>,
    <<42965, 42969>>, <<42997, 42998>>, <<43002, 43002>>, <<43824, 43866>>,
    <<43872, 43880>>, <<43888, 43967>>, <<64256, 64262>>, <<64275, 64279>>,
    <<65313, 65338>>, <<65345, 65370>>, <<66560, 66639>>, <<66736, 66771>>,
    <<66776, 66811>>, <<66928, 66938>>, <<66940, 66954>>, <<66956, 66962>>,
    <<66964, 66965>>, <<66967, 66977>>, <<66979, 66993>>, <<66995, 67001>>,
    <<67003, 67004>>, <<68736, 68786>>, <<68800, 68850>>, <<71840, 71903>>,
    <<93760, 93823>>, <<119808, 119892>>, <<119894, 119964>>,
    <<119966, 119967>>, <<119970, 119970>>, <<119973, 119974>>,
    <<119977, 119980>>, <<119982, 119993>>, <<119995, 119995>>,
    <<119997, 120003>>, <<120005, 120069>>, <<120071, 120074>>,
    <<120077, 120084>>, <<120086, 120092>>, <<120094, 120121>>,
    <<120123, 120126>>, <<120128, 120132>>, <<120134, 120134>>,
    <<120138, 120144>>, <<120146, 120485>>, <<120488, 120512>>,
    <<120514, 120538>>, <<120540, 120570>>, <<120572, 120596>>,
    <<120598, 120628>>, <<120630, 120654>>, <<120656, 120686>>,
    <<120688, 120712>>, <<120714, 120744>>, <<120746, 120770>>,
    <<120772, 120779>>, <<122624, 122633>>, <<122635, 122654>>,
    <<125184, 125251>>, <<127280, 127305>>, <<127312, 127337>>,
    <<127344, 127369>>
    >>

\* the combining marks: unicodedata.combining(c) is not 0
COMBINING_RANGES ==
    <<
    <<768, 846>>, <<848, 879>>, <<1155, 1159>>, <<1425, 1469>>,
    <<1471, 1471>>, <<1473, 1474>>, <<1476, 1477>>, <<1479, 1479>>,
    <<1552, 1562>>, <<1611, 1631>>, <<1648, 1648>>, <<1750, 1756>>,
    <<1759, 1764>>, <<1767, 1768>>, <<1770, 1773>>, <<1809, 1809>>,
    <<1840, 1866>>, <<2027, 2035>>, <<2045, 2045>>, <<2070, 2073>>,
    <<2075, 2083>>, <<2085, 2087>>, <<2089, 2093>>, <<2137, 2139>>,
    <<2200, 2207>>, <<2250, 2273>>, <<2275, 2303>>, <<2364, 2364>>,
    <<2381, 2381>>, <<2385, 2388>>, <<2492, 2492>>, <<2509, 2509>>,
    <<2558, 2558>>, <<2620, 2620>>, <<2637, 2637>>, <<2748, 2748>>,
    <<2765, 2765>>, <<2876, 2876>>, <<2893, 2893>>, <<3021, 3021>>,
    <<3132, 3132>>, <<3149, 3149>>, <<3157, 3158>>, <<3260, 3260>>,
    <<3277, 3277>>, <<3387, 3388>>, <<3405, 3405>>, <<3530, 3530>>,
    <<3640, 3642>>, <<3656, 3659>>, <<3768, 3770>>, <<3784, 3787>>,
    <<3864, 3865>>, <<3893, 3893>>, <<3895, 3895>>, <<3897, 3897>>,
    <<3953, 3954>>, <<3956, 3956>>, <<3962, 3965>>, <<3968, 3968>>,
    <<3970, 3972>>, <<3974, 3975>>, <<4038, 4038>>, <<4151, 4151>>,
    <<4153, 4154>>, <<4237, 4237>>, <<4957, 4959>>, <<5908, 5909>>,
    <<5940, 5940>>, <<6098, 6098>>, <<6109, 6109>>, <<6313, 6313>>,
    <<6457, 6459>>, <<6679, 6680>>, <<6752, 6752>>, <<6773, 6780>>,
    <<6783, 6783>>, <<6832, 6845>>, <<6847, 6862>>, <<6964, 6964>>,
    <<6980, 6980>>, <<7019, 7027>>, <<7082, 7083>>, <<7142, 7142>>,
    <<7154, 7155>>, <<7223, 7223>>, <<7376, 7378>>, <<7380, 7392>>,
    <<7394, 7400>>, <<7405, 7405>>, <<7412, 7412>>, <<7416, 7417>>,
    <<7616, 7679>>, <<8400, 8412>>, <<8417, 8417>>, <<8421, 8432>>,
    <<11503, 11505>>, <<11647, 11647>>, <<11744, 11775>>, <<12330, 12335>>,
    <<12441, 12442>>, <<42607, 42607>>, <<42612, 42621>>, <<42654, 42655>>,
    <<42736, 42737>>, <<43014, 43014>>, <<43052, 43052>>, <<43204, 43204>>,
    <<43232, 43249>>, <<43307, 43309>>, <<43347, 43347>>, <<43443, 43443>>,
    <<43456, 43456>>, <<43696, 43696>>, <<43698, 43700>>, <<43703, 43704>>,
    <<43710, 43711>>, <<43713, 43713>>, <<43766, 43766>>, <<44013, 44013>>,
    <<64286, 64286>>, <<65056, 65071>>, <<66045, 66045>>, <<66272, 66272>>,
    <<66422, 66426>>, <<68109, 68109>>, <<68111, 68111>>, <<68152, 68154>>,
    <<68159, 68159>>, <<68325, 68326>>, <<68900, 68903>>, <<69291, 69292>>,
    <<69446, 69456>>, <<69506, 69509>>, <<69702, 69702>>, <<69744, 69744>>,
    <<69759, 69759>>, <<69817, 69818>>, <<69888, 69890>>, <<69939, 69940>>,
    <<70003, 70003>>, <<70080, 70080>>, <<70090, 70090>>, <<70197, 70198>>,
    <<70377, 70378>>, <<70459, 70460>>, <<70477, 70477>>, <<70502, 70508>>,
    <<70512, 70516>>, <<70722, 70722>>, <<70726, 70726>>, <<70750, 70750>>,
    <<70850, 70851>>, <<71103, 71104>>, <<71231, 71231>>, <<71350, 71351>>,
    <<71467, 71467>>, <<71737, 71738>>, <<71997, 71998>>, <<72003, 72003>>,
    <<72160, 72160>>, <<72244, 72244>>, <<72263, 72263>>, <<72345, 72345>>,
    <<72767, 72767>>, <<73026, 73026>>, <<73028, 73029>>, <<73111, 73111>>,
    <<92912, 92916>>, <<92976, 92982>>, <<94192, 94193>>, <<113822, 113822>>,
    <<119141, 119145>>, <<119149, 119154>>, <<119163, 119170>>,
    <<119173, 119179>>, <<119210, 119213>>, <<119362, 119364>>,
    <<122880, 122886>>, <<122888, 122904>>, <<122907, 122913>>,
    <<122915, 122916>>, <<122918, 122922>>, <<123184, 123190>>,
    <<123566, 123566>>, <<123628, 123631>>, <<125136, 125142>>,
    <<125252, 125258>>
    >>

\* unicodedata.normalize("NFKD", c) without its combining marks, where it
\* is not the character itself; the Hangul syllables, which decompose by
\* arithmetic, are left out
NFKD_TABLE ==
    <<
    <<160, <<32>>>>, <<168, <<32>>>>, <<170, <<97>>>>, <<175, <<32>>>>,
    <<178, <<50>>>>, <<179, <<51>>>>, <<180, <<32>>>>, <<181, <<956>>>>,
    <<184, <<32>>>>, <<185, <<49>>>>, <<186, <<111>>>>,
    <<188, <<49, 8260, 52>>>>, <<189, <<49, 8260, 50>>>>,
    <<190, <<51, 8260, 52>>>>, <<192, <<65>>>>, <<193, <<65>>>>,
    <<194, <<65>>>>, <<195, <<65>>>>, <<196, <<65>>>>, <<197, <<65>>>>,
    <<199, <<67>>>>, <<200, <<69>>>>, <<201, <<69>>>>, <<202, <<69>>>>,
    <<203, <<69>>>>, <<204, <<73>>>>, <<205, <<73>>>>, <<206, <<73>>>>,
    <<207, <<73>>>>, <<209, <<78>>>>, <<210, <<79>>>>, <<211, <<79>>>>,
    <<212, <<79>>>>, <<213, <<79>>>>, <<214, <<79>>>>, <<217, <<85>>>>,
    <<218, <<85>>>>, <<219, <<85>>>>, <<220, <<85>>>>, <<221, <<89>>>>,
    <<224, <<97>>>>, <<225, <<97>>>>, <<226, <<97>>>>, <<227, <<97>>>>,
    <<228, <<97>>>>, <<229, <<97>>>>, <<231, <<99>>>>, <<232, <<101>>>>,
    <<233, <<101>>>>, <<234, <<101>>>>, <<235, <<101>>>>, <<236, <<105>>>>,
    <<237, <<105>>>>, <<238, <<105>>>>, <<239, <<105>>>>, <<241, <<110>>>>,
    <<242, <<111>>>>, <<243, <<111>>>>, <<244, <<111>>>>, <<245, <<111>>>>,
    <<246, <<111>>>>, <<249, <<117>>>>, <<250, <<117>>>>, <<251, <<117>>>>,
    <<252, <<117>>>>, <<253, <<121>>>>, <<255, <<121>>>>, <<256, <<65>>>>,
    <<257, <<97>>>>, <<258, <<65>>>>, <<259, <<97>>>>, <<260, <<65>>>>,
    <<261, <<97>>>>, <<262, <<67>>>>, <<263, <<99>>>>, <<264, <<67>>>>,
    <<265, <<99>>>>, <<266, <<67>>>>, <<267, <<99>>>>, <<268, <<67>>>>,
    <<269, <<99>>>>, <<270, <<68>>>>, <<271, <<100>>>>, <<274, <<69>>>>,
    <<275, <<101>>>>, <<276, <<69>>>>, <<277, <<101>>>>, <<278, <<69>>>>,
    <<279, <<101>>>>, <<280, <<69>>>>, <<281, <<101>>>>, <<282, <<69>>>>,
    <<283, <<101>>>>, <<284, <<71>>>>, <<285, <<103>>>>, <<286, <<71>>>>,
    <<287, <<103>>>>, <<288, <<71>>>>, <<289, <<103>>>>, <<290, <<71>>>>,
    <<291, <<103>>>>, <<292, <<72>>>>, <<293, <<104>>>>, <<296, <<73>>>>,
    <<297, <<105>>>>, <<298, <<73>>>>, <<299, <<105>>>>, <<300, <<73>>>>,
    <<301, <<105>>>>, <<302, <<73>>>>, <<303, <<105>>>>, <<304, <<73>>>>,
    <<306, <<73, 74>>>>, <<307, <<105, 106>>>>, <<308, <<74>>>>,
    <<309, <<106>>>>, <<310, <<75>>>>, <<311, <<107>>>>, <<313, <<76>>>>,
    <<314, <<108>>>>, <<315, <<76>>>>, <<316, <<108>>>>, <<317, <<76>>>>,
    <<318, <<108>>>>, <<319, <<76, 183>>>>, <<320, <<108, 183>>>>,
    <<323, <<78>>>>, <<324, <<110>>>>, <<325, <<78>>>>, <<326, <<110>>>>,
    <<327, <<78>>>>, <<328, <<110>>>>, <<329, <<700, 110>>>>,
    <<332, <<79>>>>, <<333, <<111>>>>, <<334, <<79>>>>, <<335, <<111>>>>,
    <<336, <<79>>>>, <<337, <<111>>>>, <<340, <<82>>>>, <<341, <<114>>>>,
    <<342, <<82>>>>, <<343, <<114>>>>, <<344, <<82>>>>, <<345, <<114>>>>,
    <<346, <<83>>>>, <<347, <<115>>>>, <<348, <<83>>>>, <<349, <<115>>>>,
    <<350, <<83>>>>, <<351, <<115>>>>, <<352, <<83>>>>, <<353, <<115>>>>,
    <<354, <<84>>>>, <<355, <<116>>>>, <<356, <<84>>>>, <<357, <<116>>>>,
    <<360, <<85>>>>, <<361, <<117>>>>, <<362, <<85>>>>, <<363, <<117>>>>,
    <<364, <<85>>>>, <<365, <<117>>>>, <<366, <<85>>>>, <<367, <<117>>>>,
    <<368, <<85>>>>, <<369, <<117>>>>, <<370, <<85>>>>, <<371, <<117>>>>,
    <<372, <<87>>>>, <<373, <<119>>>>, <<374, <<89>>>>, <<375, <<121>>>>,
    <<376, <<89>>>>, <<377, <<90>>>>, <<378, <<122>>>>, <<379, <<90>>>>,
    <<380, <<122>>>>, <<381, <<90>>>>, <<382, <<122>>>>, <<383, <<115>>>>,
    <<416, <<79>>>>, <<417, <<111>>>>, <<431, <<85>>>>, <<432, <<117>>>>,
    <<452, <<68, 90>>>>, <<453, <<68, 122>>>>, <<454, <<100, 122>>>>,
    <<455, <<76, 74>>>>, <<456, <<76, 106>>>>, <<457, <<108, 106>>>>,
    <<458, <<78, 74>>>>, <<459, <<78, 106>>>>, <<460, <<110, 106>>>>,
    <<461, <<65>>>>, <<462, <<97>>>>, <<463, <<73>>>>, <<464, <<105>>>>,
    <<465, <<79>>>>, <<466, <<111>>>>, <<467, <<85>>>>, <<468, <<117>>>>,
    <<469, <<85>>>>, <<470, <<117>>>>, <<471, <<85>>>>, <<472, <<117>>>>,
    <<473, <<85>>>>, <<474, <<117>>>>, <<475, <<85>>>>, <<476, <<117>>>>,
    <<478, <<65>>>>, <<479, <<97>>>>, <<480, <<65>>>>, <<481, <<97>>>>,
    <<482, <<198>>>>, <<483, <<230>>>>, <<486, <<71>>>>, <<487, <<103>>>>,
    <<488, <<75>>>>, <<489, <<107>>>>, <<490, <<79>>>>, <<491, <<111>>>>,
    <<492, <<79>>>>, <<493, <<111>>>>, <<494, <<439>>>>, <<495, <<658>>>>,
    <<496, <<106>>>>, <<497, <<68, 90>>>>, <<498, <<68, 122>>>>,
    <<499, <<100, 122>>>>, <<500, <<71>>>>, <<501, <<103>>>>,
    <<504, <<78>>>>, <<505, <<110>>>>, <<506, <<65>>>>, <<507, <<97>>>>,
    <<508, <<198>>>>, <<509, <<230>>>>, <<510, <<216>>>>, <<511, <<248>>>>,
    <<512, <<65>>>>, <<513, <<97>>>>, <<514, <<65>>>>, <<515, <<97>>>>,
    <<516, <<69>>>>, <<517, <<101>>>>, <<518, <<69>>>>, <<519, <<101>>>>,
    <<520, <<73>>>>, <<521, <<105>>>>, <<522, <<73>>>>, <<523, <<105>>>>,
    <<524, <<79>>>>, <<525, <<111>>>>, <<526, <<79>>>>, <<527, <<111>>>>,
    <<528, <<82>>>>, <<529, <<114>>>>, <<530, <<82>>>>, <<531, <<114>>>>,
    <<532, <<85>>>>, <<533, <<117>>>>, <<534, <<85>>>>, <<535, <<117>>>>,
    <<536, <<83>>>>, <<537, <<115>>>>, <<538, <<84>>>>, <<539, <<116>>>>,
    <<542, <<72>>>>, <<543, <<104>>>>, <<550, <<65>>>>, <<551, <<97>>>>,
    <<552, <<69>>>>, <<553, <<101>>>>, <<554, <<79>>>>, <<555, <<111>>>>,
    <<556, <<79>>>>, <<557, <<111>>>>, <<558, <<79>>>>, <<559, <<111>>>>,
    <<560, <<79>>>>, <<561, <<111>>>>, <<562, <<89>>>>, <<563, <<121>>>>,
    <<688, <<104>>>>, <<689, <<614>>>>, <<690, <<106>>>>, <<691, <<114>>>>,
    <<692, <<633>>>>, <<693, <<635>>>>, <<694, <<641>>>>, <<695, <<119>>>>,
    <<696, <<121>>>>, <<728, <<32>>>>, <<729, <<32>>>>, <<730, <<32>>>>,
    <<731, <<32>>>>, <<732, <<32>>>>, <<733, <<32>>>>, <<736, <<611>>>>,
    <<737, <<108>>>>, <<738, <<115>>>>, <<739, <<120>>>>, <<740, <<661>>>>,
    <<884, <<697>>>>, <<890, <<32>>>>, <<894, <<59>>>>, <<900, <<32>>>>,
    <<901, <<32>>>>, <<902, <<913>>>>, <<903, <<183>>>>, <<904, <<917>>>>,
    <<905, <<919>>>>, <<906, <<921>>>>, <<908, <<927>>>>, <<910, <<933>>>>,
    <<911, <<937>>>>, <<912, <<953>>>>, <<938, <<921>>>>, <<939, <<933>>>>,
    <<940, <<945>>>>, <<941, <<949>>>>, <<942, <<951>>>>, <<943, <<953>>>>,
    <<944, <<965>>>>, <<970, <<953>>>>, <<971, <<965>>>>, <<972, <<959>>>>,
    <<973, <<965>>>>, <<974, <<969>>>>, <<976, <<946>>>>, <<977, <<952>>>>,
    <<978, <<933>>>>, <<979, <<933>>>>, <<980, <<933>>>>, <<981, <<966>>>>,
    <<982, <<960>>>>, <<1008, <<954>>>>, <<1009, <<961>>>>,
    <<1010, <<962>>>>, <<1012, <<920>>>>, <<1013, <<949>>>>,
    <<1017, <<931>>>>, <<1024, <<1045>>>>, <<1025, <<1045>>>>,
    <<1027, <<1043>>>>, <<1031, <<1030>>>>, <<1036, <<1050>>>>,
    <<1037, <<1048>>>>, <<1038, <<1059>>>>, <<1049, <<1048>>>>,
    <<1081, <<1080>>>>, <<1104, <<1077>>>>, <<1105, <<1077>>>>,
    <<1107, <<1075>>>>, <<1111, <<1110>>>>, <<1116, <<1082>>>>,
    <<1117, <<1080>>>>, <<1118, <<1091>>>>, <<1142, <<1140>>>>,
    <<1143, <<1141>>>>, <<1217, <<1046>>>>, <<1218, <<1078>>>>,
    <<1232, <<1040>>>>, <<1233, <<1072>>>>, <<1234, <<1040>>>>,
    <<1235, <<1072>>>>, <<1238, <<1045>>>>, <<1239, <<1077>>>>,
    <<1242, <<1240>>>>, <<1243, <<1241>>>>, <<1244, <<1046>>>>,
    <<1245, <<1078>>>>, <<1246, <<1047>>>>, <<1247, <<1079>>>>,
    <<1250, <<1048>>>>, <<1251, <<1080>>>>, <<1252, <<1048>>>>,
    <<1253, <<1080>>>>, <<1254, <<1054>>>>, <<1255, <<1086>>>>,
    <<1258, <<1256>>>>, <<1259, <<1257>>>>, <<1260, <<1069>>>>,
    <<1261, <<1101>>>>, <<1262, <<1059>>>>, <<1263, <<1091>>>>,
    <<1264, <<1059>>>>, <<1265, <<1091>>>>, <<1266, <<1059>>>>,
    <<1267, <<1091>>>>, <<1268, <<1063>>>>, <<1269, <<1095>>>>,
    <<1272, <<1067>>>>, <<1273, <<1099>>>>, <<1415, <<1381, 1410>>>>,
    <<1570, <<1575>>>>, <<1571, <<1575>>>>, <<1572, <<1608>>>>,
    <<1573, <<1575>>>>, <<1574, <<1610>>>>, <<1653, <<1575, 1652>>>>,
    <<1654, <<1608, 1652>>>>, <<1655, <<1735, 1652>>>>,
    <<1656, <<1610, 1652>>>>, <<1728, <<1749>>>>, <<1730, <<1729>>>>,
    <<1747, <<1746>>>>, <<2345, <<2344>>>>, <<2353, <<2352>>>>,
    <<2356, <<2355>>>>, <<2392, <<2325>>>>, <<2393, <<2326>>>>,
    <<2394, <<2327>>>>, <<2395, <<2332>>>>, <<2396, <<2337>>>>,
    <<2397, <<2338>>>>, <<2398, <<2347>>>>, <<2399, <<2351>>>>,
    <<2507, <<2503, 2494>>>>, <<2508, <<2503, 2519>>>>, <<2524, <<2465>>>>,
    <<2525, <<2466>>>>, <<2527, <<2479>>>>, <<2611, <<2610>>>>,
    <<2614, <<2616>>>>, <<2649, <<2582>>>>, <<2650, <<2583>>>>,
    <<2651, <<2588>>>>, <<2654, <<2603>>>>, <<2888, <<2887, 2902>>>>,
    <<2891, <<2887, 2878>>>>, <<2892, <<2887, 2903>>>>, <<2908, <<2849>>>>,
    <<2909, <<2850>>>>, <<2964, <<2962, 3031>>>>, <<3018, <<3014, 3006>>>>,
    <<3019, <<3015, 3006>>>>, <<3020, <<3014, 3031>>>>, <<3144, <<3142>>>>,
    <<3264, <<3263, 3285>>>>, <<3271, <<3270, 3285>>>>,
    <<3272, <<3270, 3286>>>>, <<3274, <<3270, 3266>>>>,
    <<3275, <<3270, 3266, 3285>>>>, <<3402, <<3398, 3390>>>>,
    <<3403, <<3399, 3390>>>>, <<3404, <<3398, 3415>>>>, <<3546, <<3545>>>>,
    <<3548, <<3545, 3535>>>>, <<3549, <<3545, 3535>>>>,
    <<3550, <<3545, 3551>>>>, <<3635, <<3661, 3634>>>>,
    <<3763, <<3789, 3762>>>>, <<3804, <<3755, 3737>>>>,
    <<3805, <<3755, 3745>>>>, <<3852, <<3851>>>>, <<3907, <<3906, 4023>>>>,
    <<3917, <<3916, 4023>>>>, <<3922, <<3921, 4023>>>>,
    <<3927, <<3926, 4023>>>>, <<3932, <<3931, 4023>>>>,
    <<3945, <<3904, 4021>>>>, <<3955, <<>>>>, <<3957, <<>>>>,
    <<3958, <<4018>>>>, <<3959, <<4018>>>>, <<3960, <<4019>>>>,
    <<3961, <<4019>>>>, <<3969, <<>>>>, <<3987, <<3986, 4023>>>>,
    <<3997, <<3996, 4023>>>>, <<4002, <<4001, 4023>>>>,
    <<4007, <<4006, 4023>>>>, <<4012, <<4011, 4023>>>>,
    <<4025, <<3984, 4021>>>>, <<4134, <<4133, 4142>>>>, <<4348, <<4316>>>>,
    <<6918, <<6917, 6965>>>>, <<6920, <<6919, 6965>>>>,
    <<6922, <<6921, 6965>>>>, <<6924, <<6923, 6965>>>>,
    <<6926, <<6925, 6965>>>>, <<6930, <<6929, 6965>>>>,
    <<6971, <<6970, 6965>>>>, <<6973, <<6972, 6965>>>>,
    <<6976, <<6974, 6965>>>>, <<6977, <<6975, 6965>>>>,
    <<6979, <<6978, 6965>>>>, <<7468, <<65>>>>, <<7469, <<198>>>>,
    <<7470, <<66>>>>, <<7472, <<68>>>>, <<7473, <<69>>>>, <<7474, <<398>>>>,
    <<7475, <<71>>>>, <<7476, <<72>>>>, <<7477, <<73>>>>, <<7478, <<74>>>>,
    <<7479, <<75>>>>, <<7480, <<76>>>>, <<7481, <<77>>>>, <<7482, <<78>>>>,
    <<7484, <<79>>>>, <<7485, <<546>>>>, <<7486, <<80>>>>, <<7487, <<82>>>>,
    <<7488, <<84>>>>, <<7489, <<85>>>>, <<7490, <<87>>>>, <<7491, <<97>>>>,
    <<7492, <<592>>>>, <<7493, <<593>>>>, <<7494, <<7426>>>>,
    <<7495, <<98>>>>, <<7496, <<100>>>>, <<7497, <<101>>>>,
    <<7498, <<601>>>>, <<7499, <<603>>>>, <<7500, <<604>>>>,
    <<7501, <<103>>>>, <<7503, <<107>>>>, <<7504, <<109>>>>,
    <<7505, <<331>>>>, <<7506, <<111>>>>, <<7507, <<596>>>>,
    <<7508, <<7446>>>>, <<7509, <<7447>>>>, <<7510, <<112>>>>,
    <<7511, <<116>>>>, <<7512, <<117>>>>, <<7513, <<7453>>>>,
    <<7514, <<623>>>>, <<7515, <<118>>>>, <<7516, <<7461>>>>,
    <<7517, <<946>>>>, <<7518, <<947>>>>, <<7519, <<948>>>>,
    <<7520, <<966>>>>, <<7521, <<967>>>>, <<7522, <<105>>>>,
    <<7523, <<114>>>>, <<7524, <<117>>>>, <<7525, <<118>>>>,
    <<7526, <<946>>>>, <<7527, <<947>>>>, <<7528, <<961>>>>,
    <<7529, <<966>>>>, <<7530, <<967>>>>, <<7544, <<1085>>>>,
    <<7579, <<594>>>>, <<7580, <<99>>>>, <<7581, <<597>>>>,
    <<7582, <<240>>>>, <<7583, <<604>>>>, <<7584, <<102>>>>,
    <<7585, <<607>>>>, <<7586, <<609>>>>, <<7587, <<613>>>>,
    <<7588, <<616>>>>, <<7589, <<617>>>>, <<7590, <<618>>>>,
    <<7591, <<7547>>>>, <<7592, <<669>>>>, <<7593, <<621>>>>,
    <<7594, <<7557>>>>, <<7595, <<671>>>>, <<7596, <<625>>>>,
    <<7597, <<624>>>>, <<7598, <<626>>>>, <<7599, <<627>>>>,
    <<7600, <<628>>>>, <<7601, <<629>>>>, <<7602, <<632>>>>,
    <<7603, <<642>>>>, <<7604, <<643>>>>, <<7605, <<427>>>>,
    <<7606, <<649>>>>, <<7607, <<650>>>>, <<7608, <<7452>>>>,
    <<7609, <<651>>>>, <<7610, <<652>>>>, <<7611, <<122>>>>,
    <<7612, <<656>>>>, <<7613, <<657>>>>, <<7614, <<658>>>>,
    <<7615, <<952>>>>, <<7680, <<65>>>>, <<7681, <<97>>>>, <<7682, <<66>>>>,
    <<7683, <<98>>>>, <<7684, <<66>>>>, <<7685, <<98>>>>, <<7686, <<66>>>>,
    <<7687, <<98>>>>, <<7688, <<67>>>>, <<7689, <<99>>>>, <<7690, <<68>>>>,
    <<7691, <<100>>>>, <<7692, <<68>>>>, <<7693, <<100>>>>, <<7694, <<68>>>>,
    <<7695, <<100>>>>, <<7696, <<68>>>>, <<7697, <<100>>>>, <<7698, <<68>>>>,
    <<7699, <<100>>>>, <<7700, <<69>>>>, <<7701, <<101>>>>, <<7702, <<69>>>>,
    <<7703, <<101>>>>, <<7704, <<69>>>>, <<7705, <<101>>>>, <<7706, <<69>>>>,
    <<7707, <<101>>>>, <<7708, <<69>>>>, <<7709, <<101>>>>, <<7710, <<70>>>>,
    <<7711, <<102>>>>, <<7712, <<71>>>>, <<7713, <<103>>>>, <<7714, <<72>>>>,
    <<7715, <<104>>>>, <<7716, <<72>>>>, <<7717, <<104>>>>, <<7718, <<72>>>>,
    <<7719, <<104>>>>, <<7720, <<72>>>>, <<7721, <<104>>>>, <<7722, <<72>>>>,
    <<7723, <<104>>>>, <<7724, <<73>>>>, <<7725, <<105>>>>, <<7726, <<73>>>>,
    <<7727, <<105>>>>, <<7728, <<75>>>>, <<7729, <<107>>>>, <<7730, <<75>>>>,
    <<7731, <<107>>>>, <<7732, <<75>>>>, <<7733, <<107>>>>, <<7734, <<76>>>>,
    <<7735, <<108>>>>, <<7736, <<76>>>>, <<7737, <<108>>>>, <<7738, <<76>>>>,
    <<7739, <<108>>>>, <<7740, <<76>>>>, <<7741, <<108>>>>, <<7742, <<77>>>>,
    <<7743, <<109>>>>, <<7744, <<77>>>>, <<7745, <<109>>>>, <<7746, <<77>>>>,
    <<7747, <<109>>>>, <<7748, <<78>>>>, <<7749, <<110>>>>, <<7750, <<78>>>>,
    <<7751, <<110>>>>, <<7752, <<78>>>>, <<7753, <<110>>>>, <<7754, <<78>>>>,
    <<7755, <<110>>>>, <<7756, <<79>>>>, <<7757, <<111>>>>, <<7758, <<79>>>>,
    <<7759, <<111>>>>, <<7760, <<79>>>>, <<7761, <<111>>>>, <<7762, <<79>>>>,
    <<7763, <<111>>>>, <<7764, <<80>>>>, <<7765, <<112>>>>, <<7766, <<80>>>>,
    <<7767, <<112>>>>, <<7768, <<82>>>>, <<7769, <<114>>>>, <<7770, <<82>>>>,
    <<7771, <<114>>>>, <<7772, <<82>>>>, <<7773, <<114>>>>, <<7774, <<82>>>>,
    <<7775, <<114>>>>, <<7776, <<83>>>>, <<7777, <<115>>>>, <<7778, <<83>>>>,
    <<7779, <<115>>>>, <<7780, <<83>>>>, <<7781, <<115>>>>, <<7782, <<83>>>>,
    <<7783, <<115>>>>, <<7784, <<83>>>>, <<7785, <<115>>>>, <<7786, <<84>>>>,
    <<7787, <<116>>>>, <<7788, <<84>>>>, <<7789, <<116>>>>, <<7790, <<84>>>>,
    <<7791, <<116>>>>, <<7792, <<84>>>>, <<7793, <<116>>>>, <<7794, <<85>>>>,
    <<7795, <<117>>>>, <<7796, <<85>>>>, <<7797, <<117>>>>, <<7798, <<85>>>>,
    <<7799, <<117>>>>, <<7800, <<85>>>>, <<7801, <<117>>>>, <<7802, <<85>>>>,
    <<7803, <<117>>>>, <<7804, <<86>>>>, <<7805, <<118>>>>, <<7806, <<86>>>>,
    <<7807, <<118>>>>, <<7808, <<87>>>>, <<7809, <<119>>>>, <<7810, <<87>>>>,
    <<7811, <<119>>>>, <<7812, <<87>>>>, <<7813, <<119>>>>, <<7814, <<87>>>>,
    <<7815, <<119>>>>, <<7816, <<87>>>>, <<7817, <<119>>>>, <<7818, <<88>>>>,
    <<7819, <<120>>>>, <<7820, <<88>>>>, <<7821, <<120>>>>, <<7822, <<89>>>>,
    <<7823, <<121>>>>, <<7824, <<90>>>>, <<7825, <<122>>>>, <<7826, <<90>>>>,
    <<7827, <<122>>>>, <<7828, <<90>>>>, <<7829, <<122>>>>,
    <<7830, <<104>>>>, <<7831, <<116>>>>, <<7832, <<119>>>>,
    <<7833, <<121>>>>, <<7834, <<97, 702>>>>, <<7835, <<115>>>>,
    <<7840, <<65>>>>, <<7841, <<97>>>>, <<7842, <<65>>>>, <<7843, <<97>>>>,
    <<7844, <<65>>>>, <<7845, <<97>>>>, <<7846, <<65>>>>, <<7847, <<97>>>>,
    <<7848, <<65>>>>, <<7849, <<97>>>>, <<7850, <<65>>>>, <<7851, <<97>>>>,
    <<7852, <<65>>>>, <<7853, <<97>>>>, <<7854, <<65>>>>, <<7855, <<97>>>>,
    <<7856, <<65>>>>, <<7857, <<97>>>>, <<7858, <<65>>>>, <<7859, <<97>>>>,
    <<7860, <<65>>>>, <<7861, <<97>>>>, <<7862, <<65>>>>, <<7863, <<97>>>>,
    <<7864, <<69>>>>, <<7865, <<101>>>>, <<7866, <<69>>>>, <<7867, <<101>>>>,
    <<7868, <<69>>>>, <<7869, <<101>>>>, <<7870, <<69>>>>, <<7871, <<101>>>>,
    <<7872, <<69>>>>, <<7873, <<101>>>>, <<7874, <<69>>>>, <<7875, <<101>>>>,
    <<7876, <<69>>>>, <<7877, <<101>>>>, <<7878, <<69>>>>, <<7879, <<101>>>>,
    <<7880, <<73>>>>, <<7881, <<105>>>>, <<7882, <<73>>>>, <<7883, <<105>>>>,
    <<7884, <<79>>>>, <<7885, <<111>>>>, <<7886, <<79>>>>, <<7887, <<111>>>>,
    <<7888, <<79>>>>, <<7889, <<111>>>>, <<7890, <<79>>>>, <<7891, <<111>>>>,
    <<7892, <<79>>>>, <<7893, <<111>>>>, <<7894, <<79>>>>, <<7895, <<111>>>>,
    <<7896, <<79>>>>, <<7897, <<111>>>>, <<7898, <<79>>>>, <<7899, <<111>>>>,
    <<7900, <<79>>>>, <<7901, <<111>>>>, <<7902, <<79>>>>, <<7903, <<111>>>>,
    <<7904, <<79>>>>, <<7905, <<111>>>>, <<7906, <<79>>>>, <<7907, <<111>>>>,
    <<7908, <<85>>>>, <<7909, <<117>>>>, <<7910, <<85>>>>, <<7911, <<117>>>>,
    <<7912, <<85>>>>, <<7913, <<117>>>>, <<7914, <<85>>>>, <<7915, <<117>>>>,
    <<7916, <<85>>>>, <<7917, <<117>>>>, <<7918, <<85>>>>, <<7919, <<117>>>>,
    <<7920, <<85>>>>, <<7921, <<117>>>>, <<7922, <<89>>>>, <<7923, <<121>>>>,
    <<7924, <<89>>>>, <<7925, <<121>>>>, <<7926, <<89>>>>, <<7927, <<121>>>>,
    <<7928, <<89>>>>, <<7929, <<121>>>>, <<7936, <<945>>>>,
    <<7937, <<945>>>>, <<7938, <<945>>>>, <<7939, <<945>>>>,
    <<7940, <<945>>>>, <<7941, <<945>>>>, <<7942, <<945>>>>,
    <<7943, <<945>>>>, <<7944, <<913>>>>, <<7945, <<913>>>>,
    <<7946, <<913>>>>, <<7947, <<913>>>>, <<7948, <<913>>>>,
    <<7949, <<913>>>>, <<7950, <<913>>>>, <<7951, <<913>>>>,
    <<7952, <<949>>>>, <<7953, <<949>>>>, <<7954, <<949>>>>,
    <<7955, <<949>>>>, <<7956, <<949>>>>, <<7957, <<949>>>>,
    <<7960, <<917>>>>, <<7961, <<917>>>>, <<7962, <<917>>>>,
    <<7963, <<917>>>>, <<7964, <<917>>>>, <<7965, <<917>>>>,
    <<7968, <<951>>>>, <<7969, <<951>>>>, <<7970, <<951>>>>,
    <<7971, <<951>>>>, <<7972, <<951>>>>, <<7973, <<951>>>>,
    <<7974, <<951>>>>, <<7975, <<951>>>>, <<7976, <<919>>>>,
    <<7977, <<919>>>>, <<7978, <<919>>>>, <<7979, <<919>>>>,
    <<7980, <<919>>>>, <<7981, <<919>>>>, <<7982, <<919>>>>,
    <<7983, <<919>>>>, <<7984, <<953>>>>, <<7985, <<953>>>>,
    <<7986, <<953>>>>, <<7987, <<953>>>>, <<7988, <<953>>>>,
    <<7989, <<953>>>>, <<7990, <<953>>>>, <<7991, <<953>>>>,
    <<7992, <<921>>>>, <<7993, <<921>>>>, <<7994, <<921>>>>,
    <<7995, <<921>>>>, <<7996, <<921>>>>, <<7997, <<921>>>>,
    <<7998, <<921>>>>, <<7999, <<921>>>>, <<8000, <<959>>>>,
    <<8001, <<959>>>>, <<8002, <<959>>>>, <<8003, <<959>>>>,
    <<8004, <<959>>>>, <<8005, <<959>>>>, <<8008, <<927>>>>,
    <<8009, <<927>>>>, <<8010, <<927>>>>, <<8011, <<927>>>>,
    <<8012, <<927>>>>, <<8013, <<927>>>>, <<8016, <<965>>>>,
    <<8017, <<965>>>>, <<8018, <<965>>>>, <<8019, <<965>>>>,
    <<8020, <<965>>>>, <<8021, <<965>>>>, <<8022, <<965>>>>,
    <<8023, <<965>>>>, <<8025, <<933>>>>, <<8027, <<933>>>>,
    <<8029, <<933>>>>, <<8031, <<933>>>>, <<8032, <<969>>>>,
    <<8033, <<969>>>>, <<8034, <<969>>>>, <<8035, <<969>>>>,
    <<8036, <<969>>>>, <<8037, <<969>>>>, <<8038, <<969>>>>,
    <<8039, <<969>>>>, <<8040, <<937>>>>, <<8041, <<937>>>>,
    <<8042, <<937>>>>, <<8043, <<937>>>>, <<8044, <<937>>>>,
    <<8045, <<937>>>>, <<8046, <<937>>>>, <<8047, <<937>>>>,
    <<8048, <<945>>>>, <<8049, <<945>>>>, <<8050, <<949>>>>,
    <<8051, <<949>>>>, <<8052, <<951>>>>, <<8053, <<951>>>>,
    <<8054, <<953>>>>, <<8055, <<953>>>>, <<8056, <<959>>>>,
    <<8057, <<959>>>>, <<8058, <<965>>>>, <<8059, <<965>>>>,
    <<8060, <<969>>>>, <<8061, <<969>>>>, <<8064, <<945>>>>,
    <<8065, <<945>>>>, <<8066, <<945>>>>, <<8067, <<945>>>>,
    <<8068, <<945>>>>, <<8069, <<945>>>>, <<8070, <<945>>>>,
    <<8071, <<945>>>>, <<8072, <<913>>>>, <<8073, <<913>>>>,
    <<8074, <<913>>>>, <<8075, <<913>>>>, <<8076, <<913>>>>,
    <<8077, <<913>>>>, <<8078, <<913>>>>, <<8079, <<913>>>>,
    <<8080, <<951>>>>, <<8081, <<951>>>>, <<8082, <<951>>>>,
    <<8083, <<951>>>>, <<8084, <<951>>>>, <<8085, <<951>>>>,
    <<8086, <<951>>>>, <<8087, <<951>>>>, <<8088, <<919>>>>,
    <<8089, <<919>>>>, <<8090, <<919>>>>, <<8091, <<919>>>>,
    <<8092, <<919>>>>, <<8093, <<919>>>>, <<8094, <<919>>>>,
    <<8095, <<919>>>>, <<8096, <<969>>>>, <<8097, <<969>>>>,
    <<8098, <<969>>>>, <<8099, <<969>>>>, <<8100, <<969>>>>,
    <<8101, <<969>>>>, <<8102, <<969>>>>, <<8103, <<969>>>>,
    <<8104, <<937>>>>, <<8105, <<937>>>>, <<8106, <<937>>>>,
    <<8107, <<937>>>>, <<8108, <<937>>>>, <<8109, <<937>>>>,
    <<8110, <<937>>>>, <<8111, <<937>>>>, <<8112, <<945>>>>,
    <<8113, <<945>>>>, <<8114, <<945>>>>, <<8115, <<945>>>>,
    <<8116, <<945>>>>, <<8118, <<945>>>>, <<8119, <<945>>>>,
    <<8120, <<913>>>>, <<8121, <<913>>>>, <<8122, <<913>>>>,
    <<8123, <<913>>>>, <<8124, <<913>>>>, <<8125, <<32>>>>,
    <<8126, <<953>>>>, <<8127, <<32>>>>, <<8128, <<32>>>>, <<8129, <<32>>>>,
    <<8130, <<951>>>>, <<8131, <<951>>>>, <<8132, <<951>>>>,
    <<8134, <<951>>>>, <<8135, <<951>>>>, <<8136, <<917>>>>,
    <<8137, <<917>>>>, <<8138, <<919>>>>, <<8139, <<919>>>>,
    <<8140, <<919>>>>, <<8141, <<32>>>>, <<8142, <<32>>>>, <<8143, <<32>>>>,
    <<8144, <<953>>>>, <<8145, <<953>>>>, <<8146, <<953>>>>,
    <<8147, <<953>>>>, <<8150, <<953>>>>, <<8151, <<953>>>>,
    <<8152, <<921>>>>, <<8153, <<921>>>>, <<8154, <<921>>>>,
    <<8155, <<921>>>>, <<8157, <<32>>>>, <<8158, <<32>>>>, <<8159, <<32>>>>,
    <<8160, <<965>>>>, <<8161, <<965>>>>, <<8162, <<965>>>>,
    <<8163, <<965>>>>, <<8164, <<961>>>>, <<8165, <<961>>>>,
    <<8166, <<965>>>>, <<8167, <<965>>>>, <<8168, <<933>>>>,
    <<8169, <<933>>>>, <<8170, <<933>>>>, <<8171, <<933>>>>,
    <<8172, <<929>>>>, <<8173, <<32>>>>, <<8174, <<32>>>>, <<8175, <<96>>>>,
    <<8178, <<969>>>>, <<8179, <<969>>>>, <<8180, <<969>>>>,
    <<8182, <<969>>>>, <<8183, <<969>>>>, <<8184, <<927>>>>,
    <<8185, <<927>>>>, <<8186, <<937>>>>, <<8187, <<937>>>>,
    <<8188, <<937>>>>, <<8189, <<32>>>>, <<8190, <<32>>>>, <<8192, <<32>>>>,
    <<8193, <<32>>>>, <<8194, <<32>>>>, <<8195, <<32>>>>, <<8196, <<32>>>>,
    <<8197, <<32>>>>, <<8198, <<32>>>>, <<8199, <<32>>>>, <<8200, <<32>>>>,
    <<8201, <<32>>>>, <<8202, <<32>>>>, <<8209, <<8208>>>>, <<8215, <<32>>>>,
    <<8228, <<46>>>>, <<8229, <<46, 46>>>>, <<8230, <<46, 46, 46>>>>,
    <<8239, <<32>>>>, <<8243, <<8242, 8242>>>>,
    <<8244, <<8242, 8242, 8242>>>>, <<8246, <<8245, 8245>>>>,
    <<8247, <<8245, 8245, 8245>>>>, <<8252, <<33, 33>>>>, <<8254, <<32>>>>,
    <<8263, <<63, 63>>>>, <<8264, <<63, 33>>>>, <<8265, <<33, 63>>>>,
    <<8279, <<8242, 8242, 8242, 8242>>>>, <<8287, <<32>>>>, <<8304, <<48>>>>,
    <<8305, <<105>>>>, <<8308, <<52>>>>, <<8309, <<53>>>>, <<8310, <<54>>>>,
    <<8311, <<55>>>>, <<8312, <<56>>>>, <<8313, <<57>>>>, <<8314, <<43>>>>,
    <<8315, <<8722>>>>, <<8316, <<61>>>>, <<8317, <<40>>>>, <<8318, <<41>>>>,
    <<8319, <<110>>>>, <<8320, <<48>>>>, <<8321, <<49>>>>, <<8322, <<50>>>>,
    <<8323, <<51>>>>, <<8324, <<52>>>>, <<8325, <<53>>>>, <<8326, <<54>>>>,
    <<8327, <<55>>>>, <<8328, <<56>>>>, <<8329, <<57>>>>, <<8330, <<43>>>>,
    <<8331, <<8722>>>>, <<8332, <<61>>>>, <<8333, <<40>>>>, <<8334, <<41>>>>,
    <<8336, <<97>>>>, <<8337, <<101>>>>, <<8338, <<111>>>>,
    <<8339, <<120>>>>, <<8340, <<601>>>>, <<8341, <<104>>>>,
    <<8342, <<107>>>>, <<8343, <<108>>>>, <<8344, <<109>>>>,
    <<8345, <<110>>>>, <<8346, <<112>>>>, <<8347, <<115>>>>,
    <<8348, <<116>>>>, <<8360, <<82, 115>>>>, <<8448, <<97, 47, 99>>>>,
    <<8449, <<97, 47, 115>>>>, <<8450, <<67>>>>, <<8451, <<176, 67>>>>,
    <<8453, <<99, 47, 111>>>>, <<8454, <<99, 47, 117>>>>, <<8455, <<400>>>>,
    <<8457, <<176, 70>>>>, <<8458, <<103>>>>, <<8459, <<72>>>>,
    <<8460, <<72>>>>, <<8461, <<72>>>>, <<8462, <<104>>>>, <<8463, <<295>>>>,
    <<8464, <<73>>>>, <<8465, <<73>>>>, <<8466, <<76>>>>, <<8467, <<108>>>>,
    <<8469, <<78>>>>, <<8470, <<78, 111>>>>, <<8473, <<80>>>>,
    <<8474, <<81>>>>, <<8475, <<82>>>>, <<8476, <<82>>>>, <<8477, <<82>>>>,
    <<8480, <<83, 77>>>>, <<8481, <<84, 69, 76>>>>, <<8482, <<84, 77>>>>,
    <<8484, <<90>>>>, <<8486, <<937>>>>, <<8488, <<90>>>>, <<8490, <<75>>>>,
    <<8491, <<65>>>>, <<8492, <<66>>>>, <<8493, <<67>>>>, <<8495, <<101>>>>,
    <<8496, <<69>>>>, <<8497, <<70>>>>, <<8499, <<77>>>>, <<8500, <<111>>>>,
    <<8501, <<1488>>>>, <<8502, <<1489>>>>, <<8503, <<1490>>>>,
    <<8504, <<1491>>>>, <<8505, <<105>>>>, <<8507, <<70, 65, 88>>>>,
    <<8508, <<960>>>>, <<8509, <<947>>>>, <<8510, <<915>>>>,
    <<8511, <<928>>>>, <<8512, <<8721>>>>, <<8517, <<68>>>>,
    <<8518, <<100>>>>, <<8519, <<101>>>>, <<8520, <<105>>>>,
    <<8521, <<106>>>>, <<8528, <<49, 8260, 55>>>>,
    <<8529, <<49, 8260, 57>>>>, <<8530, <<49, 8260, 49, 48>>>>,
    <<8531, <<49, 8260, 51>>>>, <<8532, <<50, 8260, 51>>>>,
    <<8533, <<49, 8260, 53>>>>, <<8534, <<50, 8260, 53>>>>,
    <<8535, <<51, 8260, 53>>>>, <<8536, <<52, 8260, 53>>>>,
    <<8537, <<49, 8260, 54>>>>, <<8538, <<53, 8260, 54>>>>,
    <<8539, <<49, 8260, 56>>>>, <<8540, <<51, 8260, 56>>>>,
    <<8541, <<53, 8260, 56>>>>, <<8542, <<55, 8260, 56>>>>,
    <<8543, <<49, 8260>>>>, <<8544, <<73>>>>, <<8545, <<73, 73>>>>,
    <<8546, <<73, 73, 73>>>>, <<8547, <<73, 86>>>>, <<8548, <<86>>>>,
    <<8549, <<86, 73>>>>, <<8550, <<86, 73, 73>>>>,
    <<8551, <<86, 73, 73, 73>>>>, <<8552, <<73, 88>>>>, <<8553, <<88>>>>,
    <<8554, <<88, 73>>>>, <<8555, <<88, 73, 73>>>>, <<8556, <<76>>>>,
    <<8557, <<67>>>>, <<8558, <<68>>>>, <<8559, <<77>>>>, <<8560, <<105>>>>,
    <<8561, <<105, 105>>>>, <<8562, <<105, 105, 105>>>>,
    <<8563, <<105, 118>>>>, <<8564, <<118>>>>, <<8565, <<118, 105>>>>,
    <<8566, <<118, 105, 105>>>>, <<8567, <<118, 105, 105, 105>>>>,
    <<8568, <<105, 120>>>>, <<8569, <<120>>>>, <<8570, <<120, 105>>>>,
    <<8571, <<120, 105, 105>>>>, <<8572, <<108>>>>, <<8573, <<99>>>>,
    <<8574, <<100>>>>, <<8575, <<109>>>>, <<8585, <<48, 8260, 51>>>>,
    <<8602, <<8592>>>>, <<8603, <<8594>>>>, <<8622, <<8596>>>>,
    <<8653, <<8656>>>>, <<8654, <<8660>>>>, <<8655, <<8658>>>>,
    <<8708, <<8707>>>>, <<8713, <<8712>>>>, <<8716, <<8715>>>>,
    <<8740, <<8739>>>>, <<8742, <<8741>>>>, <<8748, <<8747, 8747>>>>,
    <<8749, <<8747, 8747, 8747>>>>, <<8751, <<8750, 8750>>>>,
    <<8752, <<8750, 8750, 8750>>>>, <<8769, <<8764>>>>, <<8772, <<8771>>>>,
    <<8775, <<8773>>>>, <<8777, <<8776>>>>, <<8800, <<61>>>>,
    <<8802, <<8801>>>>, <<8813, <<8781>>>>, <<8814, <<60>>>>,
    <<8815, <<62>>>>, <<8816, <<8804>>>>, <<8817, <<8805>>>>,
    <<8820, <<8818>>>>, <<8821, <<8819>>>>, <<8824, <<8822>>>>,
    <<8825, <<8823>>>>, <<8832, <<8826>>>>, <<8833, <<8827>>>>,
    <<8836, <<8834>>>>, <<8837, <<8835>>>>, <<8840, <<8838>>>>,
    <<8841, <<8839>>>>, <<8876, <<8866>>>>, <<8877, <<8872>>>>,
    <<8878, <<8873>>>>, <<8879, <<8875>>>>, <<8928, <<8828>>>>,
    <<8929, <<8829>>>>, <<8930, <<8849>>>>, <<8931, <<8850>>>>,
    <<8938, <<8882>>>>, <<8939, <<8883>>>>, <<8940, <<8884>>>>,
    <<8941, <<8885>>>>, <<9001, <<12296>>>>, <<9002, <<12297>>>>,
    <<9312, <<49>>>>, <<9313, <<50>>>>, <<9314, <<51>>>>, <<9315, <<52>>>>,
    <<9316, <<53>>>>, <<9317, <<54>>>>, <<9318, <<55>>>>, <<9319, <<56>>>>,
    <<9320, <<57>>>>, <<9321, <<49, 48>>>>, <<9322, <<49, 49>>>>,
    <<9323, <<49, 50>>>>, <<9324, <<49, 51>>>>, <<9325, <<49, 52>>>>,
    <<9326, <<49, 53>>>>, <<9327, <<49, 54>>>>, <<9328, <<49, 55>>>>,
    <<9329, <<49, 56>>>>, <<9330, <<49, 57>>>>, <<9331, <<50, 48>>>>,
    <<9332, <<40, 49, 41>>>>, <<9333, <<40, 50, 41>>>>,
    <<9334, <<40, 51, 41>>>>, <<9335, <<40, 52, 41>>>>,
    <<9336, <<40, 53, 41>>>>, <<9337, <<40, 54, 41>>>>,
    <<9338, <<40, 55, 41>>>>, <<9339, <<40, 56, 41>>>>,
    <<9340, <<40, 57, 41>>>>, <<9341, <<40, 49, 48, 41>>>>,
    <<9342, <<40, 49, 49, 41>>>>, <<9343, <<40, 49, 50, 41>>>>,
    <<9344, <<40, 49, 51, 41>>>>, <<9345, <<40, 49, 52, 41>>>>,
    <<9346, <<40, 49, 53, 41>>>>, <<9347, <<40, 49, 54, 41>>>>,
    <<9348, <<40, 49, 55, 41>>>>, <<9349, <<40, 49, 56, 41>>>>,
    <<9350, <<40, 49, 57, 41>>>>, <<9351, <<40, 50, 48, 41>>>>,
    <<9352, <<49, 46>>>>, <<9353, <<50, 46>>>>, <<9354, <<51, 46>>>>,
    <<9355, <<52, 46>>>>, <<9356, <<53, 46>>>>, <<9357, <<54, 46>>>>,
    <<9358, <<55, 46>>>>, <<9359, <<56, 46>>>>, <<9360, <<57, 46>>>>,
    <<9361, <<49, 48, 46>>>>, <<9362, <<49, 49, 46>>>>,
    <<9363, <<49, 50, 46>>>>, <<9364, <<49, 51, 46>>>>,
    <<9365, <<49, 52, 46>>>>, <<9366, <<49, 53, 46>>>>,
    <<9367, <<49, 54, 46>>>>, <<9368, <<49, 55, 46>>>>,
    <<9369, <<49, 56, 46>>>>, <<9370, <<49, 57, 46>>>>,
    <<9371, <<50, 48, 46>>>>, <<9372, <<40, 97, 41>>>>,
    <<9373, <<40, 98, 41>>>>, <<9374, <<40, 99, 41>>>>,
    <<9375, <<40, 100, 41>>>>, <<9376, <<40, 101, 41>>>>,
    <<9377, <<40, 102, 41>>>>, <<9378, <<40, 103, 41>>>>,
    <<9379, <<40, 104, 41>>>>, <<9380, <<40, 105, 41>>>>,
    <<9381, <<40, 106, 41>>>>, <<9382, <<40, 107, 41>>>>,
    <<9383, <<40, 108, 41>>>>, <<9384, <<40, 109, 41>>>>,
    <<9385, <<40, 110, 41>>>>, <<9386, <<40, 111, 41>>>>,
    <<9387, <<40, 112, 41>>>>, <<9388, <<40, 113, 41>>>>,
    <<9389, <<40, 114, 41>>>>, <<9390, <<40, 115, 41>>>>,
    <<9391, <<40, 116, 41>>>>, <<9392, <<40, 117, 41>>>>,
    <<9393, <<40, 118, 41>>>>, <<9394, <<40, 119, 41>>>>,
    <<9395, <<40, 120, 41>>>>, <<9396, <<40, 121, 41>>>>,
    <<9397, <<40, 122, 41>>>>, <<9398, <<65>>>>, <<9399, <<66>>>>,
    <<9400, <<67>>>>, <<9401, <<68>>>>, <<9402, <<69>>>>, <<9403, <<70>>>>,
    <<9404, <<71>>>>, <<9405, <<72>>>>, <<9406, <<73>>>>, <<9407, <<74>>>>,
    <<9408, <<75>>>>, <<9409, <<76>>>>, <<9410, <<77>>>>, <<9411, <<78>>>>,
    <<9412, <<79>>>>, <<9413, <<80>>>>, <<9414, <<81>>>>, <<9415, <<82>>>>,
    <<9416, <<83>>>>, <<9417, <<84>>>>, <<9418, <<85>>>>, <<9419, <<86>>>>,
    <<9420, <<87>>>>, <<9421, <<88>>>>, <<9422, <<89>>>>, <<9423, <<90>>>>,
    <<9424, <<97>>>>, <<9425, <<98>>>>, <<9426, <<99>>>>, <<9427, <<100>>>>,
    <<9428, <<101>>>>, <<9429, <<102>>>>, <<9430, <<103>>>>,
    <<9431, <<104>>>>, <<9432, <<105>>>>, <<9433, <<106>>>>,
    <<9434, <<107>>>>, <<9435, <<108>>>>, <<9436, <<109>>>>,
    <<9437, <<110>>>>, <<9438, <<111>>>>, <<9439, <<112>>>>,
    <<9440, <<113>>>>, <<9441, <<114>>>>, <<9442, <<115>>>>,
    <<9443, <<116>>>>, <<9444, <<117>>>>, <<9445, <<118>>>>,
    <<9446, <<119>>>>, <<9447, <<120>>>>, <<9448, <<121>>>>,
    <<9449, <<122>>>>, <<9450, <<48>>>>,
    <<10764, <<8747, 8747, 8747, 8747>>>>, <<10868, <<58, 58, 61>>>>,
    <<10869, <<61, 61>>>>, <<10870, <<61, 61, 61>>>>, <<10972, <<10973>>>>,
    <<11388, <<106>>>>, <<11389, <<86>>>>, <<11631, <<11617>>>>,
    <<11935, <<27597>>>>, <<12019, <<40863>>>>, <<12032, <<19968>>>>,
    <<12033, <<20008>>>>, <<12034, <<20022>>>>, <<12035, <<20031>>>>,
    <<12036, <<20057>>>>, <<12037, <<20101>>>>, <<12038, <<20108>>>>,
    <<12039, <<20128>>>>, <<12040, <<20154>>>>, <<12041, <<20799>>>>,
    <<12042, <<20837>>>>, <<12043, <<20843>>>>, <<12044, <<20866>>>>,
    <<12045, <<20886>>>>, <<12046, <<20907>>>>, <<12047, <<20960>>>>,
    <<12048, <<20981>>>>, <<12049, <<20992>>>>, <<12050, <<21147>>>>,
    <<12051, <<21241>>>>, <<12052, <<21269>>>>, <<12053, <<21274>>>>,
    <<12054, <<21304>>>>, <<12055, <<21313>>>>, <<12056, <<21340>>>>,
    <<12057, <<21353>>>>, <<12058, <<21378>>>>, <<12059, <<21430>>>>,
    <<12060, <<21448>>>>, <<12061, <<21475>>>>, <<12062, <<22231>>>>,
    <<12063, <<22303>>>>, <<12064, <<22763>>>>, <<12065, <<22786>>>>,
    <<12066, <<22794>>>>, <<12067, <<22805>>>>, <<12068, <<22823>>>>,
    <<12069, <<22899>>>>, <<12070, <<23376>>>>, <<12071, <<23424>>>>,
    <<12072, <<23544>>>>, <<12073, <<23567>>>>, <<12074, <<23586>>>>,
    <<12075, <<23608>>>>, <<12076, <<23662>>>>, <<12077, <<23665>>>>,
    <<12078, <<24027>>>>, <<12079, <<24037>>>>, <<12080, <<24049>>>>,
    <<12081, <<24062>>>>, <<12082, <<24178>>>>, <<12083, <<24186>>>>,
    <<12084, <<24191>>>>, <<12085, <<24308>>>>, <<12086, <<24318>>>>,
    <<12087, <<24331>>>>, <<12088, <<24339>>>>, <<12089, <<24400>>>>,
    <<12090, <<24417>>>>, <<12091, <<24435>>>>, <<12092, <<24515>>>>,
    <<12093, <<25096>>>>, <<12094, <<25142>>>>, <<12095, <<25163>>>>,
    <<12096, <<25903>>>>, <<12097, <<25908>>>>, <<12098, <<25991>>>>,
    <<12099, <<26007>>>>, <<12100, <<26020>>>>, <<12101, <<26041>>>>,
    <<12102, <<26080>>>>, <<12103, <<26085>>>>, <<12104, <<26352>>>>,
    <<12105, <<26376>>>>, <<12106, <<26408>>>>, <<12107, <<27424>>>>,
    <<12108, <<27490>>>>, <<12109, <<27513>>>>, <<12110, <<27571>>>>,
    <<12111, <<27595>>>>, <<12112, <<27604>>>>, <<12113, <<27611>>>>,
    <<12114, <<27663>>>>, <<12115, <<27668>>>>, <<12116, <<27700>>>>,
    <<12117, <<28779>>>>, <<12118, <<29226>>>>, <<12119, <<29238>>>>,
    <<12120, <<29243>>>>, <<12121, <<29247>>>>, <<12122, <<29255>>>>,
    <<12123, <<29273>>>>, <<12124, <<29275>>>>, <<12125, <<29356>>>>,
    <<12126, <<29572>>>>, <<12127, <<29577>>>>, <<12128, <<29916>>>>,
    <<12129, <<29926>>>>, <<12130, <<29976>>>>, <<12131, <<29983>>>>,
    <<12132, <<29992>>>>, <<12133, <<30000>>>>, <<12134, <<30091>>>>,
    <<12135, <<30098>>>>, <<12136, <<30326>>>>, <<12137, <<30333>>>>,
    <<12138, <<30382>>>>, <<12139, <<30399>>>>, <<12140, <<30446>>>>,
    <<12141, <<30683>>>>, <<12142, <<30690>>>>, <<12143, <<30707>>>>,
    <<12144, <<31034>>>>, <<12145, <<31160>>>>, <<12146, <<31166>>>>,
    <<12147, <<31348>>>>, <<12148, <<31435>>>>, <<12149, <<31481>>>>,
    <<12150, <<31859>>>>, <<12151, <<31992>>>>, <<12152, <<32566>>>>,
    <<12153, <<32593>>>>, <<12154, <<32650>>>>, <<12155, <<32701>>>>,
    <<12156, <<32769>>>>, <<12157, <<32780>>>>, <<12158, <<32786>>>>,
    <<12159, <<32819>>>>, <<12160, <<32895>>>>, <<12161, <<32905>>>>,
    <<12162, <<33251>>>>, <<12163, <<33258>>>>, <<12164, <<33267>>>>,
    <<12165, <<33276>>>>, <<12166, <<33292>>>>, <<12167, <<33307>>>>,
    <<12168, <<33311>>>>, <<12169, <<33390>>>>, <<12170, <<33394>>>>,
    <<12171, <<33400>>>>, <<12172, <<34381>>>>, <<12173, <<34411>>>>,
    <<12174, <<34880>>>>, <<12175, <<34892>>>>, <<12176, <<34915>>>>,
    <<12177, <<35198>>>>, <<12178, <<35211>>>>, <<12179, <<35282>>>>,
    <<12180, <<35328>>>>, <<12181, <<35895>>>>, <<12182, <<35910>>>>,
    <<12183, <<35925>>>>, <<12184, <<35960>>>>, <<12185, <<35997>>>>,
    <<12186, <<36196>>>>, <<12187, <<36208>>>>, <<12188, <<36275>>>>,
    <<12189, <<36523>>>>, <<12190, <<36554>>>>, <<12191, <<36763>>>>,
    <<12192, <<36784>>>>, <<12193, <<36789>>>>, <<12194, <<37009>>>>,
    <<12195, <<37193>>>>, <<12196, <<37318>>>>, <<12197, <<37324>>>>,
    <<12198, <<37329>>>>, <<12199, <<38263>>>>, <<12200, <<38272>>>>,
    <<12201, <<38428>>>>, <<12202, <<38582>>>>, <<12203, <<38585>>>>,
    <<12204, <<38632>>>>, <<12205, <<38737>>>>, <<12206, <<38750>>>>,
    <<12207, <<38754>>>>, <<12208, <<38761>>>>, <<12209, <<38859>>>>,
    <<12210, <<38893>>>>, <<12211, <<38899>>>>, <<12212, <<38913>>>>,
    <<12213, <<39080>>>>, <<12214, <<39131>>>>, <<12215, <<39135>>>>,
    <<12216, <<39318>>>>, <<12217, <<39321>>>>, <<12218, <<39340>>>>,
    <<12219, <<39592>>>>, <<12220, <<39640>>>>, <<12221, <<39647>>>>,
    <<12222, <<39717>>>>, <<12223, <<39727>>>>, <<12224, <<39730>>>>,
    <<12225, <<39740>>>>, <<12226, <<39770>>>>, <<12227, <<40165>>>>,
    <<12228, <<40565>>>>, <<12229, <<40575>>>>, <<12230, <<40613>>>>,
    <<12231, <<40635>>>>, <<12232, <<40643>>>>, <<12233, <<40653>>>>,
    <<12234, <<40657>>>>, <<12235, <<40697>>>>, <<12236, <<40701>>>>,
    <<12237, <<40718>>>>, <<12238, <<40723>>>>, <<12239, <<40736>>>>,
    <<12240, <<40763>>>>, <<12241, <<40778>>>>, <<12242, <<40786>>>>,
    <<12243, <<40845>>>>, <<12244, <<40860>>>>, <<12245, <<40864>>>>,
    <<12288, <<32>>>>, <<12342, <<12306>>>>, <<12344, <<21313>>>>,
    <<12345, <<21316>>>>, <<12346, <<21317>>>>, <<12364, <<12363>>>>,
    <<12366, <<12365>>>>, <<12368, <<12367>>>>, <<12370, <<12369>>>>,
    <<12372, <<12371>>>>, <<12374, <<12373>>>>, <<12376, <<12375>>>>,
    <<12378, <<12377>>>>, <<12380, <<12379>>>>, <<12382, <<12381>>>>,
    <<12384, <<12383>>>>, <<12386, <<12385>>>>, <<12389, <<12388>>>>,
    <<12391, <<12390>>>>, <<12393, <<12392>>>>, <<12400, <<12399>>>>,
    <<12401, <<12399>>>>, <<12403, <<12402>>>>, <<12404, <<12402>>>>,
    <<12406, <<12405>>>>, <<12407, <<12405>>>>, <<12409, <<12408>>>>,
    <<12410, <<12408>>>>, <<12412, <<12411>>>>, <<12413, <<12411>>>>,
    <<12436, <<12358>>>>, <<12443, <<32>>>>, <<12444, <<32>>>>,
    <<12446, <<12445>>>>, <<12447, <<12424, 12426>>>>, <<12460, <<12459>>>>,
    <<12462, <<12461>>>>, <<12464, <<12463>>>>, <<12466, <<12465>>>>,
    <<12468, <<12467>>>>, <<12470, <<12469>>>>, <<12472, <<12471>>>>,
    <<12474, <<12473>>>>, <<12476, <<12475>>>>, <<12478, <<12477>>>>,
    <<12480, <<12479>>>>, <<12482, <<12481>>>>, <<12485, <<12484>>>>,
    <<12487, <<12486>>>>, <<12489, <<12488>>>>, <<12496, <<12495>>>>,
    <<12497, <<12495>>>>, <<12499, <<12498>>>>, <<12500, <<12498>>>>,
    <<12502, <<12501>>>>, <<12503, <<12501>>>>, <<12505, <<12504>>>>,
    <<12506, <<12504>>>>, <<12508, <<12507>>>>, <<12509, <<12507>>>>,
    <<12532, <<12454>>>>, <<12535, <<12527>>>>, <<12536, <<12528>>>>,
    <<12537, <<12529>>>>, <<12538, <<12530>>>>, <<12542, <<12541>>>>,
    <<12543, <<12467, 12488>>>>, <<12593, <<4352>>>>, <<12594, <<4353>>>>,
    <<12595, <<4522>>>>, <<12596, <<4354>>>>, <<12597, <<4524>>>>,
    <<12598, <<4525>>>>, <<12599, <<4355>>>>, <<12600, <<4356>>>>,
    <<12601, <<4357>>>>, <<12602, <<4528>>>>, <<12603, <<4529>>>>,
    <<12604, <<4530>>>>, <<12605, <<4531>>>>, <<12606, <<4532>>>>,
    <<12607, <<4533>>>>, <<12608, <<4378>>>>, <<12609, <<4358>>>>,
    <<12610, <<4359>>>>, <<12611, <<4360>>>>, <<12612, <<4385>>>>,
    <<12613, <<4361>>>>, <<12614, <<4362>>>>, <<12615, <<4363>>>>,
    <<12616, <<4364>>>>, <<12617, <<4365>>>>, <<12618, <<4366>>>>,
    <<12619, <<4367>>>>, <<12620, <<4368>>>>, <<12621, <<4369>>>>,
    <<12622, <<4370>>>>, <<12623, <<4449>>>>, <<12624, <<4450>>>>,
    <<12625, <<4451>>>>, <<12626, <<4452>>>>, <<12627, <<4453>>>>,
    <<12628, <<4454>>>>, <<12629, <<4455>>>>, <<12630, <<4456>>>>,
    <<12631, <<4457>>>>, <<12632, <<4458>>>>, <<12633, <<4459>>>>,
    <<12634, <<4460>>>>, <<12635, <<4461>>>>, <<12636, <<4462>>>>,
    <<12637, <<4463>>>>, <<12638, <<4464>>>>, <<12639, <<4465>>>>,
    <<12640, <<4466>>>>, <<12641, <<4467>>>>, <<12642, <<4468>>>>,
    <<12643, <<4469>>>>, <<12644, <<4448>>>>, <<12645, <<4372>>>>,
    <<12646, <<4373>>>>, <<12647, <<4551>>>>, <<12648, <<4552>>>>,
    <<12649, <<4556>>>>, <<12650, <<4558>>>>, <<12651, <<4563>>>>,
    <<12652, <<4567>>>>, <<12653, <<4569>>>>, <<12654, <<4380>>>>,
    <<12655, <<4573>>>>, <<12656, <<4575>>>>, <<12657, <<4381>>>>,
    <<12658, <<4382>>>>, <<12659, <<4384>>>>, <<12660, <<4386>>>>,
    <<12661, <<4387>>>>, <<12662, <<4391>>>>, <<12663, <<4393>>>>,
    <<12664, <<4395>>>>, <<12665, <<4396>>>>, <<12666, <<4397>>>>,
    <<12667, <<4398>>>>, <<12668, <<4399>>>>, <<12669, <<4402>>>>,
    <<12670, <<4406>>>>, <<12671, <<4416>>>>, <<12672, <<4423>>>>,
    <<12673, <<4428>>>>, <<12674, <<4593>>>>, <<12675, <<4594>>>>,
    <<12676, <<4439>>>>, <<12677, <<4440>>>>, <<12678, <<4441>>>>,
    <<12679, <<4484>>>>, <<12680, <<4485>>>>, <<12681, <<4488>>>>,
    <<12682, <<4497>>>>, <<12683, <<4498>>>>, <<12684, <<4500>>>>,
    <<12685, <<4510>>>>, <<12686, <<4513>>>>, <<12690, <<19968>>>>,
    <<12691, <<20108>>>>, <<12692, <<19977>>>>, <<12693, <<22235>>>>,
    <<12694, <<19978>>>>, <<12695, <<20013>>>>, <<12696, <<19979>>>>,
    <<12697, <<30002>>>>, <<12698, <<20057>>>>, <<12699, <<19993>>>>,
    <<12700, <<19969>>>>, <<12701, <<22825>>>>, <<12702, <<22320>>>>,
    <<12703, <<20154>>>>, <<12800, <<40, 4352, 41>>>>,
    <<12801, <<40, 4354, 41>>>>, <<12802, <<40, 4355, 41>>>>,
    <<12803, <<40, 4357, 41>>>>, <<12804, <<40, 4358, 41>>>>,
    <<12805, <<40, 4359, 41>>>>, <<12806, <<40, 4361, 41>>>>,
    <<12807, <<40, 4363, 41>>>>, <<12808, <<40, 4364, 41>>>>,
    <<12809, <<40, 4366, 41>>>>, <<12810, <<40, 4367, 41>>>>,
    <<12811, <<40, 4368, 41>>>>, <<12812, <<40, 4369, 41>>>>,
    <<12813, <<40, 4370, 41>>>>, <<12814, <<40, 4352, 4449, 41>>>>,
    <<12815, <<40, 4354, 4449, 41>>>>, <<12816, <<40, 4355, 4449, 41>>>>,
    <<12817, <<40, 4357, 4449, 41>>>>, <<12818, <<40, 4358, 4449, 41>>>>,
    <<12819, <<40, 4359, 4449, 41>>>>, <<12820, <<40, 4361, 4449, 41>>>>,
    <<12821, <<40, 4363, 4449, 41>>>>, <<12822, <<40, 4364, 4449, 41>>>>,
    <<12823, <<40, 4366, 4449, 41>>>>, <<12824, <<40, 4367, 4449, 41>>>>,
    <<12825, <<40, 4368, 4449, 41>>>>, <<12826, <<40, 4369, 4449, 41>>>>,
    <<12827, <<40, 4370, 4449, 41>>>>, <<12828, <<40, 4364, 4462, 41>>>>,
    <<12829, <<40, 4363, 4457, 4364, 4453, 4523, 41>>>>,
    <<12830, <<40, 4363, 4457, 4370, 4462, 41>>>>,
    <<12832, <<40, 19968, 41>>>>, <<12833, <<40, 20108, 41>>>>,
    <<12834, <<40, 19977, 41>>>>, <<12835, <<40, 22235, 41>>>>,
    <<12836, <<40, 20116, 41>>>>, <<12837, <<40, 20845, 41>>>>,
    <<12838, <<40, 19971, 41>>>>, <<12839, <<40, 20843, 41>>>>,
    <<12840, <<40, 20061, 41>>>>, <<12841, <<40, 21313, 41>>>>,
    <<12842, <<40, 26376, 41>>>>, <<12843, <<40, 28779, 41>>>>,
    <<12844, <<40, 27700, 41>>>>, <<12845, <<40, 26408, 41>>>>,
    <<12846, <<40, 37329, 41>>>>, <<12847, <<40, 22303, 41>>>>,
    <<12848, <<40, 26085, 41>>>>, <<12849, <<40, 26666, 41>>>>,
    <<12850, <<40, 26377, 41>>>>, <<12851, <<40, 31038, 41>>>>,
    <<12852, <<40, 21517, 41>>>>, <<12853, <<40, 29305, 41>>>>,
    <<12854, <<40, 36001, 41>>>>, <<12855, <<40, 31069, 41>>>>,
    <<12856, <<40, 21172, 41>>>>, <<12857, <<40, 20195, 41>>>>,
    <<12858, <<40, 21628, 41>>>>, <<12859, <<40, 23398, 41>>>>,
    <<12860, <<40, 30435, 41>>>>, <<12861, <<40, 20225, 41>>>>,
    <<12862, <<40, 36039, 41>>>>, <<12863, <<40, 21332, 41>>>>,
    <<12864, <<40, 31085, 41>>>>, <<12865, <<40, 20241, 41>>>>,
    <<12866, <<40, 33258, 41>>>>, <<12867, <<40, 33267, 41>>>>,
    <<12868, <<21839>>>>, <<12869, <<24188>>>>, <<12870, <<25991>>>>,
    <<12871, <<31631>>>>, <<12880, <<80, 84, 69>>>>, <<12881, <<50, 49>>>>,
    <<12882, <<50, 50>>>>, <<12883, <<50, 51>>>>, <<12884, <<50, 52>>>>,
    <<12885, <<50, 53>>>>, <<12886, <<50, 54>>>>, <<12887, <<50, 55>>>>,
    <<12888, <<50, 56>>>>, <<12889, <<50, 57>>>>, <<12890, <<51, 48>>>>,
    <<12891, <<51, 49>>>>, <<12892, <<51, 50>>>>, <<12893, <<51, 51>>>>,
    <<12894, <<51, 52>>>>, <<12895, <<51, 53>>>>, <<12896, <<4352>>>>,
    <<12897, <<4354>>>>, <<12898, <<4355>>>>, <<12899, <<4357>>>>,
    <<12900, <<4358>>>>, <<12901, <<4359>>>>, <<12902, <<4361>>>>,
    <<12903, <<4363>>>>, <<12904, <<4364>>>>, <<12905, <<4366>>>>,
    <<12906, <<4367>>>>, <<12907, <<4368>>>>, <<12908, <<4369>>>>,
    <<12909, <<4370>>>>, <<12910, <<4352, 4449>>>>,
    <<12911, <<4354, 4449>>>>, <<12912, <<4355, 4449>>>>,
    <<12913, <<4357, 4449>>>>, <<12914, <<4358, 4449>>>>,
    <<12915, <<4359, 4449>>>>, <<12916, <<4361, 4449>>>>,
    <<12917, <<4363, 4449>>>>, <<12918, <<4364, 4449>>>>,
    <<12919, <<4366, 4449>>>>, <<12920, <<4367, 4449>>>>,
    <<12921, <<4368, 4449>>>>, <<12922, <<4369, 4449>>>>,
    <<12923, <<4370, 4449>>>>, <<12924, <<4366, 4449, 4535, 4352, 4457>>>>,
    <<12925, <<4364, 4462, 4363, 4468>>>>, <<12926, <<4363, 4462>>>>,
    <<12928, <<19968>>>>, <<12929, <<20108>>>>, <<12930, <<19977>>>>,
    <<12931, <<22235>>>>, <<12932, <<20116>>>>, <<12933, <<20845>>>>,
    <<12934, <<19971>>>>, <<12935, <<20843>>>>, <<12936, <<20061>>>>,
    <<12937, <<21313>>>>, <<12938, <<26376>>>>, <<12939, <<28779>>>>,
    <<12940, <<27700>>>>, <<12941, <<26408>>>>, <<12942, <<37329>>>>,
    <<12943, <<22303>>>>, <<12944, <<26085>>>>, <<12945, <<26666>>>>,
    <<12946, <<26377>>>>, <<12947, <<31038>>>>, <<12948, <<21517>>>>,
    <<12949, <<29305>>>>, <<12950, <<36001>>>>, <<12951, <<31069>>>>,
    <<12952, <<21172>>>>, <<12953, <<31192>>>>, <<12954, <<30007>>>>,
    <<12955, <<22899>>>>, <<12956, <<36969>>>>, <<12957, <<20778>>>>,
    <<12958, <<21360>>>>, <<12959, <<27880>>>>, <<12960, <<38917>>>>,
    <<12961, <<20241>>>>, <<12962, <<20889>>>>, <<12963, <<27491>>>>,
    <<12964, <<19978>>>>, <<12965, <<20013>>>>, <<12966, <<19979>>>>,
    <<12967, <<24038>>>>, <<12968, <<21491>>>>, <<12969, <<21307>>>>,
    <<12970, <<23447>>>>, <<12971, <<23398>>>>, <<12972, <<30435>>>>,
    <<12973, <<20225>>>>, <<12974, <<36039>>>>, <<12975, <<21332>>>>,
    <<12976, <<22812>>>>, <<12977, <<51, 54>>>>, <<12978, <<51, 55>>>>,
    <<12979, <<51, 56>>>>, <<12980, <<51, 57>>>>, <<12981, <<52, 48>>>>,
    <<12982, <<52, 49>>>>, <<12983, <<52, 50>>>>, <<12984, <<52, 51>>>>,
    <<12985, <<52, 52>>>>, <<12986, <<52, 53>>>>, <<12987, <<52, 54>>>>,
    <<12988, <<52, 55>>>>, <<12989, <<52, 56>>>>, <<12990, <<52, 57>>>>,
    <<12991, <<53, 48>>>>, <<12992, <<49, 26376>>>>,
    <<12993, <<50, 26376>>>>, <<12994, <<51, 26376>>>>,
    <<12995, <<52, 26376>>>>, <<12996, <<53, 26376>>>>,
    <<12997, <<54, 26376>>>>, <<12998, <<55, 26376>>>>,
    <<12999, <<56, 26376>>>>, <<13000, <<57, 26376>>>>,
    <<13001, <<49, 48, 26376>>>>, <<13002, <<49, 49, 26376>>>>,
    <<13003, <<49, 50, 26376>>>>, <<13004, <<72, 103>>>>,
    <<13005, <<101, 114, 103>>>>, <<13006, <<101, 86>>>>,
    <<13007, <<76, 84, 68>>>>, <<13008, <<12450>>>>, <<13009, <<12452>>>>,
    <<13010, <<12454>>>>, <<13011, <<12456>>>>, <<13012, <<12458>>>>,
    <<13013, <<12459>>>>, <<13014, <<12461>>>>, <<13015, <<12463>>>>,
    <<13016, <<12465>>>>, <<13017, <<12467>>>>, <<13018, <<12469>>>>,
    <<13019, <<12471>>>>, <<13020, <<12473>>>>, <<13021, <<12475>>>>,
    <<13022, <<12477>>>>, <<13023, <<12479>>>>, <<13024, <<12481>>>>,
    <<13025, <<12484>>>>, <<13026, <<12486>>>>, <<13027, <<12488>>>>,
    <<13028, <<12490>>>>, <<13029, <<12491>>>>, <<13030, <<12492>>>>,
    <<13031, <<12493>>>>, <<13032, <<12494>>>>, <<13033, <<12495>>>>,
    <<13034, <<12498>>>>, <<13035, <<12501>>>>, <<13036, <<12504>>>>,
    <<13037, <<12507>>>>, <<13038, <<12510>>>>, <<13039, <<12511>>>>,
    <<13040, <<12512>>>>, <<13041, <<12513>>>>, <<13042, <<12514>>>>,
    <<13043, <<12516>>>>, <<13044, <<12518>>>>, <<13045, <<12520>>>>,
    <<13046, <<12521>>>>, <<13047, <<12522>>>>, <<13048, <<12523>>>>,
    <<13049, <<12524>>>>, <<13050, <<12525>>>>, <<13051, <<12527>>>>,
    <<13052, <<12528>>>>, <<13053, <<12529>>>>, <<13054, <<12530>>>>,
    <<13055, <<20196, 21644>>>>, <<13056, <<12450, 12495, 12540, 12488>>>>,
    <<13057, <<12450, 12523, 12501, 12449>>>>,
    <<13058, <<12450, 12531, 12504, 12450>>>>,
    <<13059, <<12450, 12540, 12523>>>>,
    <<13060, <<12452, 12491, 12531, 12463>>>>,
    <<13061, <<12452, 12531, 12481>>>>, <<13062, <<12454, 12457, 12531>>>>,
    <<13063, <<12456, 12473, 12463, 12540, 12488>>>>,
    <<13064, <<12456, 12540, 12459, 12540>>>>,
    <<13065, <<12458, 12531, 12473>>>>, <<13066, <<12458, 12540, 12512>>>>,
    <<13067, <<12459, 12452, 12522>>>>,
    <<13068, <<12459, 12521, 12483, 12488>>>>,
    <<13069, <<12459, 12525, 12522, 12540>>>>,
    <<13070, <<12459, 12525, 12531>>>>, <<13071, <<12459, 12531, 12510>>>>,
    <<13072, <<12461, 12459>>>>, <<13073, <<12461, 12491, 12540>>>>,
    <<13074, <<12461, 12517, 12522, 12540>>>>,
    <<13075, <<12461, 12523, 12479, 12540>>>>, <<13076, <<12461, 12525>>>>,
    <<13077, <<12461, 12525, 12463, 12521, 12512>>>>,
    <<13078, <<12461, 12525, 12513, 12540, 12488, 12523>>>>,
    <<13079, <<12461, 12525, 12527, 12483, 12488>>>>,
    <<13080, <<12463, 12521, 12512>>>>,
    <<13081, <<12463, 12521, 12512, 12488, 12531>>>>,
    <<13082, <<12463, 12523, 12475, 12452, 12525>>>>,
    <<13083, <<12463, 12525, 12540, 12493>>>>,
    <<13084, <<12465, 12540, 12473>>>>, <<13085, <<12467, 12523, 12490>>>>,
    <<13086, <<12467, 12540, 12507>>>>,
    <<13087, <<12469, 12452, 12463, 12523>>>>,
    <<13088, <<12469, 12531, 12481, 12540, 12512>>>>,
    <<13089, <<12471, 12522, 12531, 12463>>>>,
    <<13090, <<12475, 12531, 12481>>>>, <<13091, <<12475, 12531, 12488>>>>,
    <<13092, <<12479, 12540, 12473>>>>, <<13093, <<12486, 12471>>>>,
    <<13094, <<12488, 12523>>>>, <<13095, <<12488, 12531>>>>,
    <<13096, <<12490, 12494>>>>, <<13097, <<12494, 12483, 12488>>>>,
    <<13098, <<12495, 12452, 12484>>>>,
    <<13099, <<12495, 12540, 12475, 12531, 12488>>>>,
    <<13100, <<12495, 12540, 12484>>>>,
    <<13101, <<12495, 12540, 12524, 12523>>>>,
    <<13102, <<12498, 12450, 12473, 12488, 12523>>>>,
    <<13103, <<12498, 12463, 12523>>>>, <<13104, <<12498, 12467>>>>,
    <<13105, <<12498, 12523>>>>,
    <<13106, <<12501, 12449, 12521, 12483, 12488>>>>,
    <<13107, <<12501, 12451, 12540, 12488>>>>,
    <<13108, <<12501, 12483, 12471, 12455, 12523>>>>,
    <<13109, <<12501, 12521, 12531>>>>,
    <<13110, <<12504, 12463, 12479, 12540, 12523>>>>,
    <<13111, <<12504, 12477>>>>, <<13112, <<12504, 12491, 12498>>>>,
    <<13113, <<12504, 12523, 12484>>>>, <<13114, <<12504, 12531, 12473>>>>,
    <<13115, <<12504, 12540, 12471>>>>, <<13116, <<12504, 12540, 12479>>>>,
    <<13117, <<12507, 12452, 12531, 12488>>>>,
    <<13118, <<12507, 12523, 12488>>>>, <<13119, <<12507, 12531>>>>,
    <<13120, <<12507, 12531, 12488>>>>, <<13121, <<12507, 12540, 12523>>>>,
    <<13122, <<12507, 12540, 12531>>>>,
    <<13123, <<12510, 12452, 12463, 12525>>>>,
    <<13124, <<12510, 12452, 12523>>>>, <<13125, <<12510, 12483, 12495>>>>,
    <<13126, <<12510, 12523, 12463>>>>,
    <<13127, <<12510, 12531, 12471, 12519, 12531>>>>,
    <<13128, <<12511, 12463, 12525, 12531>>>>, <<13129, <<12511, 12522>>>>,
    <<13130, <<12511, 12522, 12495, 12540, 12523>>>>,
    <<13131, <<12513, 12459>>>>, <<13132, <<12513, 12459, 12488, 12531>>>>,
    <<13133, <<12513, 12540, 12488, 12523>>>>,
    <<13134, <<12516, 12540, 12488>>>>, <<13135, <<12516, 12540, 12523>>>>,
    <<13136, <<12518, 12450, 12531>>>>,
    <<13137, <<12522, 12483, 12488, 12523>>>>, <<13138, <<12522, 12521>>>>,
    <<13139, <<12523, 12498, 12540>>>>,
    <<13140, <<12523, 12540, 12501, 12523>>>>, <<13141, <<12524, 12512>>>>,
    <<13142, <<12524, 12531, 12488, 12465, 12531>>>>,
    <<13143, <<12527, 12483, 12488>>>>, <<13144, <<48, 28857>>>>,
    <<13145, <<49, 28857>>>>, <<13146, <<50, 28857>>>>,
    <<13147, <<51, 28857>>>>, <<13148, <<52, 28857>>>>,
    <<13149, <<53, 28857>>>>, <<13150, <<54, 28857>>>>,
    <<13151, <<55, 28857>>>>, <<13152, <<56, 28857>>>>,
    <<13153, <<57, 28857>>>>, <<13154, <<49, 48, 28857>>>>,
    <<13155, <<49, 49, 28857>>>>, <<13156, <<49, 50, 28857>>>>,
    <<13157, <<49, 51, 28857>>>>, <<13158, <<49, 52, 28857>>>>,
    <<13159, <<49, 53, 28857>>>>, <<13160, <<49, 54, 28857>>>>,
    <<13161, <<49, 55, 28857>>>>, <<13162, <<49, 56, 28857>>>>,
    <<13163, <<49, 57, 28857>>>>, <<13164, <<50, 48, 28857>>>>,
    <<13165, <<50, 49, 28857>>>>, <<13166, <<50, 50, 28857>>>>,
    <<13167, <<50, 51, 28857>>>>, <<13168, <<50, 52, 28857>>>>,
    <<13169, <<104, 80, 97>>>>, <<13170, <<100, 97>>>>,
    <<13171, <<65, 85>>>>, <<13172, <<98, 97, 114>>>>,
    <<13173, <<111, 86>>>>, <<13174, <<112, 99>>>>, <<13175, <<100, 109>>>>,
    <<13176, <<100, 109, 50>>>>, <<13177, <<100, 109, 51>>>>,
    <<13178, <<73, 85>>>>, <<13179, <<24179, 25104>>>>,
    <<13180, <<26157, 21644>>>>, <<13181, <<22823, 27491>>>>,
    <<13182, <<26126, 27835>>>>, <<13183, <<26666, 24335, 20250, 31038>>>>,
    <<13184, <<112, 65>>>>, <<13185, <<110, 65>>>>, <<13186, <<956, 65>>>>,
    <<13187, <<109, 65>>>>, <<13188, <<107, 65>>>>, <<13189, <<75, 66>>>>,
    <<13190, <<77, 66>>>>, <<13191, <<71, 66>>>>, <<13192, <<99, 97, 108>>>>,
    <<13193, <<107, 99, 97, 108>>>>, <<13194, <<112, 70>>>>,
    <<13195, <<110, 70>>>>, <<13196, <<956, 70>>>>, <<13197, <<956, 103>>>>,
    <<13198, <<109, 103>>>>, <<13199, <<107, 103>>>>, <<13200, <<72, 122>>>>,
    <<13201, <<107, 72, 122>>>>, <<13202, <<77, 72, 122>>>>,
    <<13203, <<71, 72, 122>>>>, <<13204, <<84, 72, 122>>>>,
    <<13205, <<956, 108>>>>, <<13206, <<109, 108>>>>,
    <<13207, <<100, 108>>>>, <<13208, <<107, 108>>>>,
    <<13209, <<102, 109>>>>, <<13210, <<110, 109>>>>,
    <<13211, <<956, 109>>>>, <<13212, <<109, 109>>>>, <<13213, <<99, 109>>>>,
    <<13214, <<107, 109>>>>, <<13215, <<109, 109, 50>>>>,
    <<13216, <<99, 109, 50>>>>, <<13217, <<109, 50>>>>,
    <<13218, <<107, 109, 50>>>>, <<13219, <<109, 109, 51>>>>,
    <<13220, <<99, 109, 51>>>>, <<13221, <<109, 51>>>>,
    <<13222, <<107, 109, 51>>>>, <<13223, <<109, 8725, 115>>>>,
    <<13224, <<109, 8725, 115, 50>>>>, <<13225, <<80, 97>>>>,
    <<13226, <<107, 80, 97>>>>, <<13227, <<77, 80, 97>>>>,
    <<13228, <<71, 80, 97>>>>, <<13229, <<114, 97, 100>>>>,
    <<13230, <<114, 97, 100, 8725, 115>>>>,
    <<13231, <<114, 97, 100, 8725, 115, 50>>>>, <<13232, <<112, 115>>>>,
    <<13233, <<110, 115>>>>, <<13234, <<956, 115>>>>,
    <<13235, <<109, 115>>>>, <<13236, <<112, 86>>>>, <<13237, <<110, 86>>>>,
    <<13238, <<956, 86>>>>, <<13239, <<109, 86>>>>, <<13240, <<107, 86>>>>,
    <<13241, <<77, 86>>>>, <<13242, <<112, 87>>>>, <<13243, <<110, 87>>>>,
    <<13244, <<956, 87>>>>, <<13245, <<109, 87>>>>, <<13246, <<107, 87>>>>,
    <<13247, <<77, 87>>>>, <<13248, <<107, 937>>>>, <<13249, <<77, 937>>>>,
    <<13250, <<97, 46, 109, 46>>>>, <<13251, <<66, 113>>>>,
    <<13252, <<99, 99>>>>, <<13253, <<99, 100>>>>,
    <<13254, <<67, 8725, 107, 103>>>>, <<13255, <<67, 111, 46>>>>,
    <<13256, <<100, 66>>>>, <<13257, <<71, 121>>>>, <<13258, <<104, 97>>>>,
    <<13259, <<72, 80>>>>, <<13260, <<105, 110>>>>, <<13261, <<75, 75>>>>,
    <<13262, <<75, 77>>>>, <<13263, <<107, 116>>>>, <<13264, <<108, 109>>>>,
    <<13265, <<108, 110>>>>, <<13266, <<108, 111, 103>>>>,
    <<13267, <<108, 120>>>>, <<13268, <<109, 98>>>>,
    <<13269, <<109, 105, 108>>>>, <<13270, <<109, 111, 108>>>>,
    <<13271, <<80, 72>>>>, <<13272, <<112, 46, 109, 46>>>>,
    <<13273, <<80, 80, 77>>>>, <<13274, <<80, 82>>>>,
    <<13275, <<115, 114>>>>, <<13276, <<83, 118>>>>, <<13277, <<87, 98>>>>,
    <<13278, <<86, 8725, 109>>>>, <<13279, <<65, 8725, 109>>>>,
    <<13280, <<49, 26085>>>>, <<13281, <<50, 26085>>>>,
    <<13282, <<51, 26085>>>>, <<13283, <<52, 26085>>>>,
    <<13284, <<53, 26085>>>>, <<13285, <<54, 26085>>>>,
    <<13286, <<55, 26085>>>>, <<13287, <<56, 26085>>>>,
    <<13288, <<57, 26085>>>>, <<13289, <<49, 48, 26085>>>>,
    <<13290, <<49, 49, 26085>>>>, <<13291, <<49, 50, 26085>>>>,
    <<13292, <<49, 51, 26085>>>>, <<13293, <<49, 52, 26085>>>>,
    <<13294, <<49, 53, 26085>>>>, <<13295, <<49, 54, 26085>>>>,
    <<13296, <<49, 55, 26085>>>>, <<13297, <<49, 56, 26085>>>>,
    <<13298, <<49, 57, 26085>>>>, <<13299, <<50, 48, 26085>>>>,
    <<13300, <<50, 49, 26085>>>>, <<13301, <<50, 50, 26085>>>>,
    <<13302, <<50, 51, 26085>>>>, <<13303, <<50, 52, 26085>>>>,
    <<13304, <<50, 53, 26085>>>>, <<13305, <<50, 54, 26085>>>>,
    <<13306, <<50, 55, 26085>>>>, <<13307, <<50, 56, 26085>>>>,
    <<13308, <<50, 57, 26085>>>>, <<13309, <<51, 48, 26085>>>>,
    <<13310, <<51, 49, 26085>>>>, <<13311, <<103, 97, 108>>>>,
    <<42652, <<1098>>>>, <<42653, <<1100>>>>, <<42864, <<42863>>>>,
    <<42994, <<67>>>>, <<42995, <<70>>>>, <<42996, <<81>>>>,
    <<43000, <<294>>>>, <<43001, <<339>>>>, <<43868, <<42791>>>>,
    <<43869, <<43831>>>>, <<43870, <<619>>>>, <<43871, <<43858>>>>,
    <<43881, <<653>>>>, <<63744, <<35912>>>>, <<63745, <<26356>>>>,
    <<63746, <<36554>>>>, <<63747, <<36040>>>>, <<63748, <<28369>>>>,
    <<63749, <<20018>>>>, <<63750, <<21477>>>>, <<63751, <<40860>>>>,
    <<63752, <<40860>>>>, <<63753, <<22865>>>>, <<63754, <<37329>>>>,
    <<63755, <<21895>>>>, <<63756, <<22856>>>>, <<63757, <<25078>>>>,
    <<63758, <<30313>>>>, <<63759, <<32645>>>>, <<63760, <<34367>>>>,
    <<63761, <<34746>>>>, <<63762, <<35064>>>>, <<63763, <<37007>>>>,
    <<63764, <<27138>>>>, <<63765, <<27931>>>>, <<63766, <<28889>>>>,
    <<63767, <<29662>>>>, <<63768, <<33853>>>>, <<63769, <<37226>>>>,
    <<63770, <<39409>>>>, <<63771, <<20098>>>>, <<63772, <<21365>>>>,
    <<63773, <<27396>>>>, <<63774, <<29211>>>>, <<63775, <<34349>>>>,
    <<63776, <<40478>>>>, <<63777, <<23888>>>>, <<63778, <<28651>>>>,
    <<63779, <<34253>>>>, <<63780, <<35172>>>>, <<63781, <<25289>>>>,
    <<63782, <<33240>>>>, <<63783, <<34847>>>>, <<63784, <<24266>>>>,
    <<63785, <<26391>>>>, <<63786, <<28010>>>>, <<63787, <<29436>>>>,
    <<63788, <<37070>>>>, <<63789, <<20358>>>>, <<63790, <<20919>>>>,
    <<63791, <<21214>>>>, <<63792, <<25796>>>>, <<63793, <<27347>>>>,
    <<63794, <<29200>>>>, <<63795, <<30439>>>>, <<63796, <<32769>>>>,
    <<63797, <<34310>>>>, <<63798, <<34396>>>>, <<63799, <<36335>>>>,
    <<63800, <<38706>>>>, <<63801, <<39791>>>>, <<63802, <<40442>>>>,
    <<63803, <<30860>>>>, <<63804, <<31103>>>>, <<63805, <<32160>>>>,
    <<63806, <<33737>>>>, <<63807, <<37636>>>>, <<63808, <<40575>>>>,
    <<63809, <<35542>>>>, <<63810, <<22751>>>>, <<63811, <<24324>>>>,
    <<63812, <<31840>>>>, <<63813, <<32894>>>>, <<63814, <<29282>>>>,
    <<63815, <<30922>>>>, <<63816, <<36034>>>>, <<63817, <<38647>>>>,
    <<63818, <<22744>>>>, <<63819, <<23650>>>>, <<63820, <<27155>>>>,
    <<63821, <<28122>>>>, <<63822, <<28431>>>>, <<63823, <<32047>>>>,
    <<63824, <<32311>>>>, <<63825, <<38475>>>>, <<63826, <<21202>>>>,
    <<63827, <<32907>>>>, <<63828, <<20956>>>>, <<63829, <<20940>>>>,
    <<63830, <<31260>>>>, <<63831, <<32190>>>>, <<63832, <<33777>>>>,
    <<63833, <<38517>>>>, <<63834, <<35712>>>>, <<63835, <<25295>>>>,
    <<63836, <<27138>>>>, <<63837, <<35582>>>>, <<63838, <<20025>>>>,
    <<63839, <<23527>>>>, <<63840, <<24594>>>>, <<63841, <<29575>>>>,
    <<63842, <<30064>>>>, <<63843, <<21271>>>>, <<63844, <<30971>>>>,
    <<63845, <<20415>>>>, <<63846, <<24489>>>>, <<63847, <<19981>>>>,
    <<63848, <<27852>>>>, <<63849, <<25976>>>>, <<63850, <<32034>>>>,
    <<63851, <<21443>>>>, <<63852, <<22622>>>>, <<63853, <<30465>>>>,
    <<63854, <<33865>>>>, <<63855, <<35498>>>>, <<63856, <<27578>>>>,
    <<63857, <<36784>>>>, <<63858, <<27784>>>>, <<63859, <<25342>>>>,
    <<63860, <<33509>>>>, <<63861, <<25504>>>>, <<63862, <<30053>>>>,
    <<63863, <<20142>>>>, <<63864, <<20841>>>>, <<63865, <<20937>>>>,
    <<63866, <<26753>>>>, <<63867, <<31975>>>>, <<63868, <<33391>>>>,
    <<63869, <<35538>>>>, <<63870, <<37327>>>>, <<63871, <<21237>>>>,
    <<63872, <<21570>>>>, <<63873, <<22899>>>>, <<63874, <<24300>>>>,
    <<63875, <<26053>>>>, <<63876, <<28670>>>>, <<63877, <<31018>>>>,
    <<63878, <<38317>>>>, <<63879, <<39530>>>>, <<63880, <<40599>>>>,
    <<63881, <<40654>>>>, <<63882, <<21147>>>>, <<63883, <<26310>>>>,
    <<63884, <<27511>>>>, <<63885, <<36706>>>>, <<63886, <<24180>>>>,
    <<63887, <<24976>>>>, <<63888, <<25088>>>>, <<63889, <<25754>>>>,
    <<63890, <<28451>>>>, <<63891, <<29001>>>>, <<63892, <<29833>>>>,
    <<63893, <<31178>>>>, <<63894, <<32244>>>>, <<63895, <<32879>>>>,
    <<63896, <<36646>>>>, <<63897, <<34030>>>>, <<63898, <<36899>>>>,
    <<63899, <<37706>>>>, <<63900, <<21015>>>>, <<63901, <<21155>>>>,
    <<63902, <<21693>>>>, <<63903, <<28872>>>>, <<63904, <<35010>>>>,
    <<63905, <<35498>>>>, <<63906, <<24265>>>>, <<63907, <<24565>>>>,
    <<63908, <<25467>>>>, <<63909, <<27566>>>>, <<63910, <<31806>>>>,
    <<63911, <<29557>>>>, <<63912, <<20196>>>>, <<63913, <<22265>>>>,
    <<63914, <<23527>>>>, <<63915, <<23994>>>>, <<63916, <<24604>>>>,
    <<63917, <<29618>>>>, <<63918, <<29801>>>>, <<63919, <<32666>>>>,
    <<63920, <<32838>>>>, <<63921, <<37428>>>>, <<63922, <<38646>>>>,
    <<63923, <<38728>>>>, <<63924, <<38936>>>>, <<63925, <<20363>>>>,
    <<63926, <<31150>>>>, <<63927, <<37300>>>>, <<63928, <<38584>>>>,
    <<63929, <<24801>>>>, <<63930, <<20102>>>>, <<63931, <<20698>>>>,
    <<63932, <<23534>>>>, <<63933, <<23615>>>>, <<63934, <<26009>>>>,
    <<63935, <<27138>>>>, <<63936, <<29134>>>>, <<63937, <<30274>>>>,
    <<63938, <<34044>>>>, <<63939, <<36988>>>>, <<63940, <<40845>>>>,
    <<63941, <<26248>>>>, <<63942, <<38446>>>>, <<63943, <<21129>>>>,
    <<63944, <<26491>>>>, <<63945, <<26611>>>>, <<63946, <<27969>>>>,
    <<63947, <<28316>>>>, <<63948, <<29705>>>>, <<63949, <<30041>>>>,
    <<63950, <<30827>>>>, <<63951, <<32016>>>>, <<63952, <<39006>>>>,
    <<63953, <<20845>>>>, <<63954, <<25134>>>>, <<63955, <<38520>>>>,
    <<63956, <<20523>>>>, <<63957, <<23833>>>>, <<63958, <<28138>>>>,
    <<63959, <<36650>>>>, <<63960, <<24459>>>>, <<63961, <<24900>>>>,
    <<63962, <<26647>>>>, <<63963, <<29575>>>>, <<63964, <<38534>>>>,
    <<63965, <<21033>>>>, <<63966, <<21519>>>>, <<63967, <<23653>>>>,
    <<63968, <<26131>>>>, <<63969, <<26446>>>>, <<63970, <<26792>>>>,
    <<63971, <<27877>>>>, <<63972, <<29702>>>>, <<63973, <<30178>>>>,
    <<63974, <<32633>>>>, <<63975, <<35023>>>>, <<63976, <<35041>>>>,
    <<63977, <<37324>>>>, <<63978, <<38626>>>>, <<63979, <<21311>>>>,
    <<63980, <<28346>>>>, <<63981, <<21533>>>>, <<63982, <<29136>>>>,
    <<63983, <<29848>>>>, <<63984, <<34298>>>>, <<63985, <<38563>>>>,
    <<63986, <<40023>>>>, <<63987, <<40607>>>>, <<63988, <<26519>>>>,
    <<63989, <<28107>>>>, <<63990, <<33256>>>>, <<63991, <<31435>>>>,
    <<63992, <<31520>>>>, <<63993, <<31890>>>>, <<63994, <<29376>>>>,
    <<63995, <<28825>>>>, <<63996, <<35672>>>>, <<63997, <<20160>>>>,
    <<63998, <<33590>>>>, <<63999, <<21050>>>>, <<64000, <<20999>>>>,
    <<64001, <<24230>>>>, <<64002, <<25299>>>>, <<64003, <<31958>>>>,
    <<64004, <<23429>>>>, <<64005, <<27934>>>>, <<64006, <<26292>>>>,
    <<64007, <<36667>>>>, <<64008, <<34892>>>>, <<64009, <<38477>>>>,
    <<64010, <<35211>>>>, <<64011, <<24275>>>>, <<64012, <<20800>>>>,
    <<64013, <<21952>>>>, <<64016, <<22618>>>>, <<64018, <<26228>>>>,
    <<64021, <<20958>>>>, <<64022, <<29482>>>>, <<64023, <<30410>>>>,
    <<64024, <<31036>>>>, <<64025, <<31070>>>>, <<64026, <<31077>>>>,
    <<64027, <<31119>>>>, <<64028, <<38742>>>>, <<64029, <<31934>>>>,
    <<64030, <<32701>>>>, <<64032, <<34322>>>>, <<64034, <<35576>>>>,
    <<64037, <<36920>>>>, <<64038, <<37117>>>>, <<64042, <<39151>>>>,
    <<64043, <<39164>>>>, <<64044, <<39208>>>>, <<64045, <<40372>>>>,
    <<64046, <<37086>>>>, <<64047, <<38583>>>>, <<64048, <<20398>>>>,
    <<64049, <<20711>>>>, <<64050, <<20813>>>>, <<64051, <<21193>>>>,
    <<64052, <<21220>>>>, <<64053, <<21329>>>>, <<64054, <<21917>>>>,
    <<64055, <<22022>>>>, <<64056, <<22120>>>>, <<64057, <<22592>>>>,
    <<64058, <<22696>>>>, <<64059, <<23652>>>>, <<64060, <<23662>>>>,
    <<64061, <<24724>>>>, <<64062, <<24936>>>>, <<64063, <<24974>>>>,
    <<64064, <<25074>>>>, <<64065, <<25935>>>>, <<64066, <<26082>>>>,
    <<64067, <<26257>>>>, <<64068, <<26757>>>>, <<64069, <<28023>>>>,
    <<64070, <<28186>>>>, <<64071, <<28450>>>>, <<64072, <<29038>>>>,
    <<64073, <<29227>>>>, <<64074, <<29730>>>>, <<64075, <<30865>>>>,
    <<64076, <<31038>>>>, <<64077, <<31049>>>>, <<64078, <<31048>>>>,
    <<64079, <<31056>>>>, <<64080, <<31062>>>>, <<64081, <<31069>>>>,
    <<64082, <<31117>>>>, <<64083, <<31118>>>>, <<64084, <<31296>>>>,
    <<64085, <<31361>>>>, <<64086, <<31680>>>>, <<64087, <<32244>>>>,
    <<64088, <<32265>>>>, <<64089, <<32321>>>>, <<64090, <<32626>>>>,
    <<64091, <<32773>>>>, <<64092, <<33261>>>>, <<64093, <<33401>>>>,
    <<64094, <<33401>>>>, <<64095, <<33879>>>>, <<64096, <<35088>>>>,
    <<64097, <<35222>>>>, <<64098, <<35585>>>>, <<64099, <<35641>>>>,
    <<64100, <<36051>>>>, <<64101, <<36104>>>>, <<64102, <<36790>>>>,
    <<64103, <<36920>>>>, <<64104, <<38627>>>>, <<64105, <<38911>>>>,
    <<64106, <<38971>>>>, <<64107, <<24693>>>>, <<64108, <<148206>>>>,
    <<64109, <<33304>>>>, <<64112, <<20006>>>>, <<64113, <<20917>>>>,
    <<64114, <<20840>>>>, <<64115, <<20352>>>>, <<64116, <<20805>>>>,
    <<64117, <<20864>>>>, <<64118, <<21191>>>>, <<64119, <<21242>>>>,
    <<64120, <<21917>>>>, <<64121, <<21845>>>>, <<64122, <<21913>>>>,
    <<64123, <<21986>>>>, <<64124, <<22618>>>>, <<64125, <<22707>>>>,
    <<64126, <<22852>>>>, <<64127, <<22868>>>>, <<64128, <<23138>>>>,
    <<64129, <<23336>>>>, <<64130, <<24274>>>>, <<64131, <<24281>>>>,
    <<64132, <<24425>>>>, <<64133, <<24493>>>>, <<64134, <<24792>>>>,
    <<64135, <<24910>>>>, <<64136, <<24840>>>>, <<64137, <<24974>>>>,
    <<64138, <<24928>>>>, <<64139, <<25074>>>>, <<64140, <<25140>>>>,
    <<64141, <<25540>>>>, <<64142, <<25628>>>>, <<64143, <<25682>>>>,
    <<64144, <<25942>>>>, <<64145, <<26228>>>>, <<64146, <<26391>>>>,
    <<64147, <<26395>>>>, <<64148, <<26454>>>>, <<64149, <<27513>>>>,
    <<64150, <<27578>>>>, <<64151, <<27969>>>>, <<64152, <<28379>>>>,
    <<64153, <<28363>>>>, <<64154, <<28450>>>>, <<64155, <<28702>>>>,
    <<64156, <<29038>>>>, <<64157, <<30631>>>>, <<64158, <<29237>>>>,
    <<64159, <<29359>>>>, <<64160, <<29482>>>>, <<64161, <<29809>>>>,
    <<64162, <<29958>>>>, <<64163, <<30011>>>>, <<64164, <<30237>>>>,
    <<64165, <<30239>>>>, <<64166, <<30410>>>>, <<64167, <<30427>>>>,
    <<64168, <<30452>>>>, <<64169, <<30538>>>>, <<64170, <<30528>>>>,
    <<64171, <<30924>>>>, <<64172, <<31409>>>>, <<64173, <<31680>>>>,
    <<64174, <<31867>>>>, <<64175, <<32091>>>>, <<64176, <<32244>>>>,
    <<64177, <<32574>>>>, <<64178, <<32773>>>>, <<64179, <<33618>>>>,
    <<64180, <<33775>>>>, <<64181, <<34681>>>>, <<64182, <<35137>>>>,
    <<64183, <<35206>>>>, <<64184, <<35222>>>>, <<64185, <<35519>>>>,
    <<64186, <<35576>>>>, <<64187, <<35531>>>>, <<64188, <<35585>>>>,
    <<64189, <<35582>>>>, <<64190, <<35565>>>>, <<64191, <<35641>>>>,
    <<64192, <<35722>>>>, <<64193, <<36104>>>>, <<64194, <<36664>>>>,
    <<64195, <<36978>>>>, <<64196, <<37273>>>>, <<64197, <<37494>>>>,
    <<64198, <<38524>>>>, <<64199, <<38627>>>>, <<64200, <<38742>>>>,
    <<64201, <<38875>>>>, <<64202, <<38911>>>>, <<64203, <<38923>>>>,
    <<64204, <<38971>>>>, <<64205, <<39698>>>>, <<64206, <<40860>>>>,
    <<64207, <<141386>>>>, <<64208, <<141380>>>>, <<64209, <<144341>>>>,
    <<64210, <<15261>>>>, <<64211, <<16408>>>>, <<64212, <<16441>>>>,
    <<64213, <<152137>>>>, <<64214, <<154832>>>>, <<64215, <<163539>>>>,
    <<64216, <<40771>>>>, <<64217, <<40846>>>>, <<64256, <<102, 102>>>>,
    <<64257, <<102, 105>>>>, <<64258, <<102, 108>>>>,
    <<64259, <<102, 102, 105>>>>, <<64260, <<102, 102, 108>>>>,
    <<64261, <<115, 116>>>>, <<64262, <<115, 116>>>>,
    <<64275, <<1396, 1398>>>>, <<64276, <<1396, 1381>>>>,
    <<64277, <<1396, 1387>>>>, <<64278, <<1406, 1398>>>>,
    <<64279, <<1396, 1389>>>>, <<64285, <<1497>>>>, <<64287, <<1522>>>>,
    <<64288, <<1506>>>>, <<64289, <<1488>>>>, <<64290, <<1491>>>>,
    <<64291, <<1492>>>>, <<64292, <<1499>>>>, <<64293, <<1500>>>>,
    <<64294, <<1501>>>>, <<64295, <<1512>>>>, <<64296, <<1514>>>>,
    <<64297, <<43>>>>, <<64298, <<1513>>>>, <<64299, <<1513>>>>,
    <<64300, <<1513>>>>, <<64301, <<1513>>>>, <<64302, <<1488>>>>,
    <<64303, <<1488>>>>, <<64304, <<1488>>>>, <<64305, <<1489>>>>,
    <<64306, <<1490>>>>, <<64307, <<1491>>>>, <<64308, <<1492>>>>,
    <<64309, <<1493>>>>, <<64310, <<1494>>>>, <<64312, <<1496>>>>,
    <<64313, <<1497>>>>, <<64314, <<1498>>>>, <<64315, <<1499>>>>,
    <<64316, <<1500>>>>, <<64318, <<1502>>>>, <<64320, <<1504>>>>,
    <<64321, <<1505>>>>, <<64323, <<1507>>>>, <<64324, <<1508>>>>,
    <<64326, <<1510>>>>, <<64327, <<1511>>>>, <<64328, <<1512>>>>,
    <<64329, <<1513>>>>, <<64330, <<1514>>>>, <<64331, <<1493>>>>,
    <<64332, <<1489>>>>, <<64333, <<1499>>>>, <<64334, <<1508>>>>,
    <<64335, <<1488, 1500>>>>, <<64336, <<1649>>>>, <<64337, <<1649>>>>,
    <<64338, <<1659>>>>, <<64339, <<1659>>>>, <<64340, <<1659>>>>,
    <<64341, <<1659>>>>, <<64342, <<1662>>>>, <<64343, <<1662>>>>,
    <<64344, <<1662>>>>, <<64345, <<1662>>>>, <<64346, <<1664>>>>,
    <<64347, <<1664>>>>, <<64348, <<1664>>>>, <<64349, <<1664>>>>,
    <<64350, <<1658>>>>, <<64351, <<1658>>>>, <<64352, <<1658>>>>,
    <<64353, <<1658>>>>, <<64354, <<1663>>>>, <<64355, <<1663>>>>,
    <<64356, <<1663>>>>, <<64357, <<1663>>>>, <<64358, <<1657>>>>,
    <<64359, <<1657>>>>, <<64360, <<1657>>>>, <<64361, <<1657>>>>,
    <<64362, <<1700>>>>, <<64363, <<1700>>>>, <<64364, <<1700>>>>,
    <<64365, <<1700>>>>, <<64366, <<1702>>>>, <<64367, <<1702>>>>,
    <<64368, <<1702>>>>, <<64369, <<1702>>>>, <<64370, <<1668>>>>,
    <<64371, <<1668>>>>, <<64372, <<1668>>>>, <<64373, <<1668>>>>,
    <<64374, <<1667>>>>, <<64375, <<1667>>>>, <<64376, <<1667>>>>,
    <<64377, <<1667>>>>, <<64378, <<1670>>>>, <<64379, <<1670>>>>,
    <<64380, <<1670>>>>, <<64381, <<1670>>>>, <<64382, <<1671>>>>,
    <<64383, <<1671>>>>, <<64384, <<1671>>>>, <<64385, <<1671>>>>,
    <<64386, <<1677>>>>, <<64387, <<1677>>>>, <<64388, <<1676>>>>,
    <<64389, <<1676>>>>, <<64390, <<1678>>>>, <<64391, <<1678>>>>,
    <<64392, <<1672>>>>, <<64393, <<1672>>>>, <<64394, <<1688>>>>,
    <<64395, <<1688>>>>, <<64396, <<1681>>>>, <<64397, <<1681>>>>,
    <<64398, <<1705>>>>, <<64399, <<1705>>>>, <<64400, <<1705>>>>,
    <<64401, <<1705>>>>, <<64402, <<1711>>>>, <<64403, <<1711>>>>,
    <<64404, <<1711>>>>, <<64405, <<1711>>>>, <<64406, <<1715>>>>,
    <<64407, <<1715>>>>, <<64408, <<1715>>>>, <<64409, <<1715>>>>,
    <<64410, <<1713>>>>, <<64411, <<1713>>>>, <<64412, <<1713>>>>,
    <<64413, <<1713>>>>, <<64414, <<1722>>>>, <<64415, <<1722>>>>,
    <<64416, <<1723>>>>, <<64417, <<1723>>>>, <<64418, <<1723>>>>,
    <<64419, <<1723>>>>, <<64420, <<1749>>>>, <<64421, <<1749>>>>,
    <<64422, <<1729>>>>, <<64423, <<1729>>>>, <<64424, <<1729>>>>,
    <<64425, <<1729>>>>, <<64426, <<1726>>>>, <<64427, <<1726>>>>,
    <<64428, <<1726>>>>, <<64429, <<1726>>>>, <<64430, <<1746>>>>,
    <<64431, <<1746>>>>, <<64432, <<1746>>>>, <<64433, <<1746>>>>,
    <<64467, <<1709>>>>, <<64468, <<1709>>>>, <<64469, <<1709>>>>,
    <<64470, <<1709>>>>, <<64471, <<1735>>>>, <<64472, <<1735>>>>,
    <<64473, <<1734>>>>, <<64474, <<1734>>>>, <<64475, <<1736>>>>,
    <<64476, <<1736>>>>, <<64477, <<1735, 1652>>>>, <<64478, <<1739>>>>,
    <<64479, <<1739>>>>, <<64480, <<1733>>>>, <<64481, <<1733>>>>,
    <<64482, <<1737>>>>, <<64483, <<1737>>>>, <<64484, <<1744>>>>,
    <<64485, <<1744>>>>, <<64486, <<1744>>>>, <<64487, <<1744>>>>,
    <<64488, <<1609>>>>, <<64489, <<1609>>>>, <<64490, <<1610, 1575>>>>,
    <<64491, <<1610, 1575>>>>, <<64492, <<1610, 1749>>>>,
    <<64493, <<1610, 1749>>>>, <<64494, <<1610, 1608>>>>,
    <<64495, <<1610, 1608>>>>, <<64496, <<1610, 1735>>>>,
    <<64497, <<1610, 1735>>>>, <<64498, <<1610, 1734>>>>,
    <<64499, <<1610, 1734>>>>, <<64500, <<1610, 1736>>>>,
    <<64501, <<1610, 1736>>>>, <<64502, <<1610, 1744>>>>,
    <<64503, <<1610, 1744>>>>, <<64504, <<1610, 1744>>>>,
    <<64505, <<1610, 1609>>>>, <<64506, <<1610, 1609>>>>,
    <<64507, <<1610, 1609>>>>, <<64508, <<1740>>>>, <<64509, <<1740>>>>,
    <<64510, <<1740>>>>, <<64511, <<1740>>>>, <<64512, <<1610, 1580>>>>,
    <<64513, <<1610, 1581>>>>, <<64514, <<1610, 1605>>>>,
    <<64515, <<1610, 1609>>>>, <<64516, <<1610, 1610>>>>,
    <<64517, <<1576, 1580>>>>, <<64518, <<1576, 1581>>>>,
    <<64519, <<1576, 1582>>>>, <<64520, <<1576, 1605>>>>,
    <<64521, <<1576, 1609>>>>, <<64522, <<1576, 1610>>>>,
    <<64523, <<1578, 1580>>>>, <<64524, <<1578, 1581>>>>,
    <<64525, <<1578, 1582>>>>, <<64526, <<1578, 1605>>>>,
    <<64527, <<1578, 1609>>>>, <<64528, <<1578, 1610>>>>,
    <<64529, <<1579, 1580>>>>, <<64530, <<1579, 1605>>>>,
    <<64531, <<1579, 1609>>>>, <<64532, <<1579, 1610>>>>,
    <<64533, <<1580, 1581>>>>, <<64534, <<1580, 1605>>>>,
    <<64535, <<1581, 1580>>>>, <<64536, <<1581, 1605>>>>,
    <<64537, <<1582, 1580>>>>, <<64538, <<1582, 1581>>>>,
    <<64539, <<1582, 1605>>>>, <<64540, <<1587, 1580>>>>,
    <<64541, <<1587, 1581>>>>, <<64542, <<1587, 1582>>>>,
    <<64543, <<1587, 1605>>>>, <<64544, <<1589, 1581>>>>,
    <<64545, <<1589, 1605>>>>, <<64546, <<1590, 1580>>>>,
    <<64547, <<1590, 1581>>>>, <<64548, <<1590, 1582>>>>,
    <<64549, <<1590, 1605>>>>, <<64550, <<1591, 1581>>>>,
    <<64551, <<1591, 1605>>>>, <<64552, <<1592, 1605>>>>,
    <<64553, <<1593, 1580>>>>, <<64554, <<1593, 1605>>>>,
    <<64555, <<1594, 1580>>>>, <<64556, <<1594, 1605>>>>,
    <<64557, <<1601, 1580>>>>, <<64558, <<1601, 1581>>>>,
    <<64559, <<1601, 1582>>>>, <<64560, <<1601, 1605>>>>,
    <<64561, <<1601, 1609>>>>, <<64562, <<1601, 1610>>>>,
    <<64563, <<1602, 1581>>>>, <<64564, <<1602, 1605>>>>,
    <<64565, <<1602, 1609>>>>, <<64566, <<1602, 1610>>>>,
    <<64567, <<1603, 1575>>>>, <<64568, <<1603, 1580>>>>,
    <<64569, <<1603, 1581>>>>, <<64570, <<1603, 1582>>>>,
    <<64571, <<1603, 1604>>>>, <<64572, <<1603, 1605>>>>,
    <<64573, <<1603, 1609>>>>, <<64574, <<1603, 1610>>>>,
    <<64575, <<1604, 1580>>>>, <<64576, <<1604, 1581>>>>,
    <<64577, <<1604, 1582>>>>, <<64578, <<1604, 1605>>>>,
    <<64579, <<1604, 1609>>>>, <<64580, <<1604, 1610>>>>,
    <<64581, <<1605, 1580>>>>, <<64582, <<1605, 1581>>>>,
    <<64583, <<1605, 1582>>>>, <<64584, <<1605, 1605>>>>,
    <<64585, <<1605, 1609>>>>, <<64586, <<1605, 1610>>>>,
    <<64587, <<1606, 1580>>>>, <<64588, <<1606, 1581>>>>,
    <<64589, <<1606, 1582>>>>, <<64590, <<1606, 1605>>>>,
    <<64591, <<1606, 1609>>>>, <<64592, <<1606, 1610>>>>,
    <<64593, <<1607, 1580>>>>, <<64594, <<1607, 1605>>>>,
    <<64595, <<1607, 1609>>>>, <<64596, <<1607, 1610>>>>,
    <<64597, <<1610, 1580>>>>, <<64598, <<1610, 1581>>>>,
    <<64599, <<1610, 1582>>>>, <<64600, <<1610, 1605>>>>,
    <<64601, <<1610, 1609>>>>, <<64602, <<1610, 1610>>>>,
    <<64603, <<1584>>>>, <<64604, <<1585>>>>, <<64605, <<1609>>>>,
    <<64606, <<32>>>>, <<64607, <<32>>>>, <<64608, <<32>>>>,
    <<64609, <<32>>>>, <<64610, <<32>>>>, <<64611, <<32>>>>,
    <<64612, <<1610, 1585>>>>, <<64613, <<1610, 1586>>>>,
    <<64614, <<1610, 1605>>>>, <<64615, <<1610, 1606>>>>,
    <<64616, <<1610, 1609>>>>, <<64617, <<1610, 1610>>>>,
    <<64618, <<1576, 1585>>>>, <<64619, <<1576, 1586>>>>,
    <<64620, <<1576, 1605>>>>, <<64621, <<1576, 1606>>>>,
    <<64622, <<1576, 1609>>>>, <<64623, <<1576, 1610>>>>,
    <<64624, <<1578, 1585>>>>, <<64625, <<1578, 1586>>>>,
    <<64626, <<1578, 1605>>>>, <<64627, <<1578, 1606>>>>,
    <<64628, <<1578, 1609>>>>, <<64629, <<1578, 1610>>>>,
    <<64630, <<1579, 1585>>>>, <<64631, <<1579, 1586>>>>,
    <<64632, <<1579, 1605>>>>, <<64633, <<1579, 1606>>>>,
    <<64634, <<1579, 1609>>>>, <<64635, <<1579, 1610>>>>,
    <<64636, <<1601, 1609>>>>, <<64637, <<1601, 1610>>>>,
    <<64638, <<1602, 1609>>>>, <<64639, <<1602, 1610>>>>,
    <<64640, <<1603, 1575>>>>, <<64641, <<1603, 1604>>>>,
    <<64642, <<1603, 1605>>>>, <<64643, <<1603, 1609>>>>,
    <<64644, <<1603, 1610>>>>, <<64645, <<1604, 1605>>>>,
    <<64646, <<1604, 1609>>>>, <<64647, <<1604, 1610>>>>,
    <<64648, <<1605, 1575>>>>, <<64649, <<1605, 1605>>>>,
    <<64650, <<1606, 1585>>>>, <<64651, <<1606, 1586>>>>,
    <<64652, <<1606, 1605>>>>, <<64653, <<1606, 1606>>>>,
    <<64654, <<1606, 1609>>>>, <<64655, <<1606, 1610>>>>,
    <<64656, <<1609>>>>, <<64657, <<1610, 1585>>>>,
    <<64658, <<1610, 1586>>>>, <<64659, <<1610, 1605>>>>,
    <<64660, <<1610, 1606>>>>, <<64661, <<1610, 1609>>>>,
    <<64662, <<1610, 1610>>>>, <<64663, <<1610, 1580>>>>,
    <<64664, <<1610, 1581>>>>, <<64665, <<1610, 1582>>>>,
    <<64666, <<1610, 1605>>>>, <<64667, <<1610, 1607>>>>,
    <<64668, <<1576, 1580>>>>, <<64669, <<1576, 1581>>>>,
    <<64670, <<1576, 1582>>>>, <<64671, <<1576, 1605>>>>,
    <<64672, <<1576, 1607>>>>, <<64673, <<1578, 1580>>>>,
    <<64674, <<1578, 1581>>>>, <<64675, <<1578, 1582>>>>,
    <<64676, <<1578, 1605>>>>, <<64677, <<1578, 1607>>>>,
    <<64678, <<1579, 1605>>>>, <<64679, <<1580, 1581>>>>,
    <<64680, <<1580, 1605>>>>, <<64681, <<1581, 1580>>>>,
    <<64682, <<1581, 1605>>>>, <<64683, <<1582, 1580>>>>,
    <<64684, <<1582, 1605>>>>, <<64685, <<1587, 1580>>>>,
    <<64686, <<1587, 1581>>>>, <<64687, <<1587, 1582>>>>,
    <<64688, <<1587, 1605>>>>, <<64689, <<1589, 1581>>>>,
    <<64690, <<1589, 1582>>>>, <<64691, <<1589, 1605>>>>,
    <<64692, <<1590, 1580>>>>, <<64693, <<1590, 1581>>>>,
    <<64694, <<1590, 1582>>>>, <<64695, <<1590, 1605>>>>,
    <<64696, <<1591, 1581>>>>, <<64697, <<1592, 1605>>>>,
    <<64698, <<1593, 1580>>>>, <<64699, <<1593, 1605>>>>,
    <<64700, <<1594, 1580>>>>, <<64701, <<1594, 1605>>>>,
    <<64702, <<1601, 1580>>>>, <<64703, <<1601, 1581>>>>,
    <<64704, <<1601, 1582>>>>, <<64705, <<1601, 1605>>>>,
    <<64706, <<1602, 1581>>>>, <<64707, <<1602, 1605>>>>,
    <<64708, <<1603, 1580>>>>, <<64709, <<1603, 1581>>>>,
    <<64710, <<1603, 1582>>>>, <<64711, <<1603, 1604>>>>,
    <<64712, <<1603, 1605>>>>, <<64713, <<1604, 1580>>>>,
    <<64714, <<1604, 1581>>>>, <<64715, <<1604, 1582>>>>,
    <<64716, <<1604, 1605>>>>, <<64717, <<1604, 1607>>>>,
    <<64718, <<1605, 1580>>>>, <<64719, <<1605, 1581>>>>,
    <<64720, <<1605, 1582>>>>, <<64721, <<1605, 1605>>>>,
    <<64722, <<1606, 1580>>>>, <<64723, <<1606, 1581>>>>,
    <<64724, <<1606, 1582>>>>, <<64725, <<1606, 1605>>>>,
    <<64726, <<1606, 1607>>>>, <<64727, <<1607, 1580>>>>,
    <<64728, <<1607, 1605>>>>, <<64729, <<1607>>>>,
    <<64730, <<1610, 1580>>>>, <<64731, <<1610, 1581>>>>,
    <<64732, <<1610, 1582>>>>, <<64733, <<1610, 1605>>>>,
    <<64734, <<1610, 1607>>>>, <<64735, <<1610, 1605>>>>,
    <<64736, <<1610, 1607>>>>, <<64737, <<1576, 1605>>>>,
    <<64738, <<1576, 1607>>>>, <<64739, <<1578, 1605>>>>,
    <<64740, <<1578, 1607>>>>, <<64741, <<1579, 1605>>>>,
    <<64742, <<1579, 1607>>>>, <<64743, <<1587, 1605>>>>,
    <<64744, <<1587, 1607>>>>, <<64745, <<1588, 1605>>>>,
    <<64746, <<1588, 1607>>>>, <<64747, <<1603, 1604>>>>,
    <<64748, <<1603, 1605>>>>, <<64749, <<1604, 1605>>>>,
    <<64750, <<1606, 1605>>>>, <<64751, <<1606, 1607>>>>,
    <<64752, <<1610, 1605>>>>, <<64753, <<1610, 1607>>>>,
    <<64754, <<1600>>>>, <<64755, <<1600>>>>, <<64756, <<1600>>>>,
    <<64757, <<1591, 1609>>>>, <<64758, <<1591, 1610>>>>,
    <<64759, <<1593, 1609>>>>, <<64760, <<1593, 1610>>>>,
    <<64761, <<1594, 1609>>>>, <<64762, <<1594, 1610>>>>,
    <<64763, <<1587, 1609>>>>, <<64764, <<1587, 1610>>>>,
    <<64765, <<1588, 1609>>>>, <<64766, <<1588, 1610>>>>,
    <<64767, <<1581, 1609>>>>, <<64768, <<1581, 1610>>>>,
    <<64769, <<1580, 1609>>>>, <<64770, <<1580, 1610>>>>,
    <<64771, <<1582, 1609>>>>, <<64772, <<1582, 1610>>>>,
    <<64773, <<1589, 1609>>>>, <<64774, <<1589, 1610>>>>,
    <<64775, <<1590, 1609>>>>, <<64776, <<1590, 1610>>>>,
    <<64777, <<1588, 1580>>>>, <<64778, <<1588, 1581>>>>,
    <<64779, <<1588, 1582>>>>, <<64780, <<1588, 1605>>>>,
    <<64781, <<1588, 1585>>>>, <<64782, <<1587, 1585>>>>,
    <<64783, <<1589, 1585>>>>, <<64784, <<1590, 1585>>>>,
    <<64785, <<1591, 1609>>>>, <<64786, <<1591, 1610>>>>,
    <<64787, <<1593, 1609>>>>, <<64788, <<1593, 1610>>>>,
    <<64789, <<1594, 1609>>>>, <<64790, <<1594, 1610>>>>,
    <<64791, <<1587, 1609>>>>, <<64792, <<1587, 1610>>>>,
    <<64793, <<1588, 1609>>>>, <<64794, <<1588, 1610>>>>,
    <<64795, <<1581, 1609>>>>, <<64796, <<1581, 1610>>>>,
    <<64797, <<1580, 1609>>>>, <<64798, <<1580, 1610>>>>,
    <<64799, <<1582, 1609>>>>, <<64800, <<1582, 1610>>>>,
    <<64801, <<1589, 1609>>>>, <<64802, <<1589, 1610>>>>,
    <<64803, <<1590, 1609>>>>, <<64804, <<1590, 1610>>>>,
    <<64805, <<1588, 1580>>>>, <<64806, <<1588, 1581>>>>,
    <<64807, <<1588, 1582>>>>, <<64808, <<1588, 1605>>>>,
    <<64809, <<1588, 1585>>>>, <<64810, <<1587, 1585>>>>,
    <<64811, <<1589, 1585>>>>, <<64812, <<1590, 1585>>>>,
    <<64813, <<1588, 1580>>>>, <<64814, <<1588, 1581>>>>,
    <<64815, <<1588, 1582>>>>, <<64816, <<1588, 1605>>>>,
    <<64817, <<1587, 1607>>>>, <<64818, <<1588, 1607>>>>,
    <<64819, <<1591, 1605>>>>, <<64820, <<1587, 1580>>>>,
    <<64821, <<1587, 1581>>>>, <<64822, <<1587, 1582>>>>,
    <<64823, <<1588, 1580>>>>, <<64824, <<1588, 1581>>>>,
    <<64825, <<1588, 1582>>>>, <<64826, <<1591, 1605>>>>,
    <<64827, <<1592, 1605>>>>, <<64828, <<1575>>>>, <<64829, <<1575>>>>,
    <<64848, <<1578, 1580, 1605>>>>, <<64849, <<1578, 1581, 1580>>>>,
    <<64850, <<1578, 1581, 1580>>>>, <<64851, <<1578, 1581, 1605>>>>,
    <<64852, <<1578, 1582, 1605>>>>, <<64853, <<1578, 1605, 1580>>>>,
    <<64854, <<1578, 1605, 1581>>>>, <<64855, <<1578, 1605, 1582>>>>,
    <<64856, <<1580, 1605, 1581>>>>, <<64857, <<1580, 1605, 1581>>>>,
    <<64858, <<1581, 1605, 1610>>>>, <<64859, <<1581, 1605, 1609>>>>,
    <<64860, <<1587, 1581, 1580>>>>, <<64861, <<1587, 1580, 1581>>>>,
    <<64862, <<1587, 1580, 1609>>>>, <<64863, <<1587, 1605, 1581>>>>,
    <<64864, <<1587, 1605, 1581>>>>, <<64865, <<1587, 1605, 1580>>>>,
    <<64866, <<1587, 1605, 1605>>>>, <<64867, <<1587, 1605, 1605>>>>,
    <<64868, <<1589, 1581, 1581>>>>, <<64869, <<1589, 1581, 1581>>>>,
    <<64870, <<1589, 1605, 1605>>>>, <<64871, <<1588, 1581, 1605>>>>,
    <<64872, <<1588, 1581, 1605>>>>, <<64873, <<1588, 1580, 1610>>>>,
    <<64874, <<1588, 1605, 1582>>>>, <<64875, <<1588, 1605, 1582>>>>,
    <<64876, <<1588, 1605, 1605>>>>, <<64877, <<1588, 1605, 1605>>>>,
    <<64878, <<1590, 1581, 1609>>>>, <<64879, <<1590, 1582, 1605>>>>,
    <<64880, <<1590, 1582, 1605>>>>, <<64881, <<1591, 1605, 1581>>>>,
    <<64882, <<1591, 1605, 1581>>>>, <<64883, <<1591, 1605, 1605>>>>,
    <<64884, <<1591, 1605, 1610>>>>, <<64885, <<1593, 1580, 1605>>>>,
    <<64886, <<1593, 1605, 1605>>>>, <<64887, <<1593, 1605, 1605>>>>,
    <<64888, <<1593, 1605, 1609>>>>, <<64889, <<1594, 1605, 1605>>>>,
    <<64890, <<1594, 1605, 1610>>>>, <<64891, <<1594, 1605, 1609>>>>,
    <<64892, <<1601, 1582, 1605>>>>, <<64893, <<1601, 1582, 1605>>>>,
    <<64894, <<1602, 1605, 1581>>>>, <<64895, <<1602, 1605, 1605>>>>,
    <<64896, <<1604, 1581, 1605>>>>, <<64897, <<1604, 1581, 1610>>>>,
    <<64898, <<1604, 1581, 1609>>>>, <<64899, <<1604, 1580, 1580>>>>,
    <<64900, <<1604, 1580, 1580>>>>, <<64901, <<1604, 1582, 1605>>>>,
    <<64902, <<1604, 1582, 1605>>>>, <<64903, <<1604, 1605, 1581>>>>,
    <<64904, <<1604, 1605, 1581>>>>, <<64905, <<1605, 1581, 1580>>>>,
    <<64906, <<1605, 1581, 1605>>>>, <<64907, <<1605, 1581, 1610>>>>,
    <<64908, <<1605, 1580, 1581>>>>, <<64909, <<1605, 1580, 1605>>>>,
    <<64910, <<1605, 1582, 1580>>>>, <<64911, <<1605, 1582, 1605>>>>,
    <<64914, <<1605, 1580, 1582>>>>, <<64915, <<1607, 1605, 1580>>>>,
    <<64916, <<1607, 1605, 1605>>>>, <<64917, <<1606, 1581, 1605>>>>,
    <<64918, <<1606, 1581, 1609>>>>, <<64919, <<1606, 1580, 1605>>>>,
    <<64920, <<1606, 1580, 1605>>>>, <<64921, <<1606, 1580, 1609>>>>,
    <<64922, <<1606, 1605, 1610>>>>, <<64923, <<1606, 1605, 1609>>>>,
    <<64924, <<1610, 1605, 1605>>>>, <<64925, <<1610, 1605, 1605>>>>,
    <<64926, <<1576, 1582, 1610>>>>, <<64927, <<1578, 1580, 1610>>>>,
    <<64928, <<1578, 1580, 1609>>>>, <<64929, <<1578, 1582, 1610>>>>,
    <<64930, <<1578, 1582, 1609>>>>, <<64931, <<1578, 1605, 1610>>>>,
    <<64932, <<1578, 1605, 1609>>>>, <<64933, <<1580, 1605, 1610>>>>,
    <<64934, <<1580, 1581, 1609>>>>, <<64935, <<1580, 1605, 1609>>>>,
    <<64936, <<1587, 1582, 1609>>>>, <<64937, <<1589, 1581, 1610>>>>,
    <<64938, <<1588, 1581, 1610>>>>, <<64939, <<1590, 1581, 1610>>>>,
    <<64940, <<1604, 1580, 1610>>>>, <<64941, <<1604, 1605, 1610>>>>,
    <<64942, <<1610, 1581, 1610>>>>, <<64943, <<1610, 1580, 1610>>>>,
    <<64944, <<1610, 1605, 1610>>>>, <<64945, <<1605, 1605, 1610>>>>,
    <<64946, <<1602, 1605, 1610>>>>, <<64947, <<1606, 1581, 1610>>>>,
    <<64948, <<1602, 1605, 1581>>>>, <<64949, <<1604, 1581, 1605>>>>,
    <<64950, <<1593, 1605, 1610>>>>, <<64951, <<1603, 1605, 1610>>>>,
    <<64952, <<1606, 1580, 1581>>>>, <<64953, <<1605, 1582, 1610>>>>,
    <<64954, <<1604, 1580, 1605>>>>, <<64955, <<1603, 1605, 1605>>>>,
    <<64956, <<1604, 1580, 1605>>>>, <<64957, <<1606, 1580, 1581>>>>,
    <<64958, <<1580, 1581, 1610>>>>, <<64959, <<1581, 1580, 1610>>>>,
    <<64960, <<1605, 1580, 1610>>>>, <<64961, <<1601, 1605, 1610>>>>,
    <<64962, <<1576, 1581, 1610>>>>, <<64963, <<1603, 1605, 1605>>>>,
    <<64964, <<1593, 1580, 1605>>>>, <<64965, <<1589, 1605, 1605>>>>,
    <<64966, <<1587, 1582, 1610>>>>, <<64967, <<1606, 1580, 1610>>>>,
    <<65008, <<1589, 1604, 1746>>>>, <<65009, <<1602, 1604, 1746>>>>,
    <<65010, <<1575, 1604, 1604, 1607>>>>,
    <<65011, <<1575, 1603, 1576, 1585>>>>,
    <<65012, <<1605, 1581, 1605, 1583>>>>,
    <<65013, <<1589, 1604, 1593, 1605>>>>,
    <<65014, <<1585, 1587, 1608, 1604>>>>,
    <<65015, <<1593, 1604, 1610, 1607>>>>,
    <<65016, <<1608, 1587, 1604, 1605>>>>, <<65017, <<1589, 1604, 1609>>>>,
    <<65018, <<1589, 1604, 1609, 32, 1575, 1604, 1604, 1607, 32, 1593, 1604, 1610, 1607, 32, 1608, 1587, 1604, 1605>>>>,
    <<65019, <<1580, 1604, 32, 1580, 1604, 1575, 1604, 1607>>>>,
    <<65020, <<1585, 1740, 1575, 1604>>>>, <<65040, <<44>>>>,
    <<65041, <<12289>>>>, <<65042, <<12290>>>>, <<65043, <<58>>>>,
    <<65044, <<59>>>>, <<65045, <<33>>>>, <<65046, <<63>>>>,
    <<65047, <<12310>>>>, <<65048, <<12311>>>>, <<65049, <<46, 46, 46>>>>,
    <<65072, <<46, 46>>>>, <<65073, <<8212>>>>, <<65074, <<8211>>>>,
    <<65075, <<95>>>>, <<65076, <<95>>>>, <<65077, <<40>>>>,
    <<65078, <<41>>>>, <<65079, <<123>>>>, <<65080, <<125>>>>,
    <<65081, <<12308>>>>, <<65082, <<12309>>>>, <<65083, <<12304>>>>,
    <<65084, <<12305>>>>, <<65085, <<12298>>>>, <<65086, <<12299>>>>,
    <<65087, <<12296>>>>, <<65088, <<12297>>>>, <<65089, <<12300>>>>,
    <<65090, <<12301>>>>, <<65091, <<12302>>>>, <<65092, <<12303>>>>,
    <<65095, <<91>>>>, <<65096, <<93>>>>, <<65097, <<32>>>>,
    <<65098, <<32>>>>, <<65099, <<32>>>>, <<65100, <<32>>>>,
    <<65101, <<95>>>>, <<65102, <<95>>>>, <<65103, <<95>>>>,
    <<65104, <<44>>>>, <<65105, <<12289>>>>, <<65106, <<46>>>>,
    <<65108, <<59>>>>, <<65109, <<58>>>>, <<65110, <<63>>>>,
    <<65111, <<33>>>>, <<65112, <<8212>>>>, <<65113, <<40>>>>,
    <<65114, <<41>>>>, <<65115, <<123>>>>, <<65116, <<125>>>>,
    <<65117, <<12308>>>>, <<65118, <<12309>>>>, <<65119, <<35>>>>,
    <<65120, <<38>>>>, <<65121, <<42>>>>, <<65122, <<43>>>>,
    <<65123, <<45>>>>, <<65124, <<60>>>>, <<65125, <<62>>>>,
    <<65126, <<61>>>>, <<65128, <<92>>>>, <<65129, <<36>>>>,
    <<65130, <<37>>>>, <<65131, <<64>>>>, <<65136, <<32>>>>,
    <<65137, <<1600>>>>, <<65138, <<32>>>>, <<65140, <<32>>>>,
    <<65142, <<32>>>>, <<65143, <<1600>>>>, <<65144, <<32>>>>,
    <<65145, <<1600>>>>, <<65146, <<32>>>>, <<65147, <<1600>>>>,
    <<65148, <<32>>>>, <<65149, <<1600>>>>, <<65150, <<32>>>>,
    <<65151, <<1600>>>>, <<65152, <<1569>>>>, <<65153, <<1575>>>>,
    <<65154, <<1575>>>>, <<65155, <<1575>>>>, <<65156, <<1575>>>>,
    <<65157, <<1608>>>>, <<65158, <<1608>>>>, <<65159, <<1575>>>>,
    <<65160, <<1575>>>>, <<65161, <<1610>>>>, <<65162, <<1610>>>>,
    <<65163, <<1610>>>>, <<65164, <<1610>>>>, <<65165, <<1575>>>>,
    <<65166, <<1575>>>>, <<65167, <<1576>>>>, <<65168, <<1576>>>>,
    <<65169, <<1576>>>>, <<65170, <<1576>>>>, <<65171, <<1577>>>>,
    <<65172, <<1577>>>>, <<65173, <<1578>>>>, <<65174, <<1578>>>>,
    <<65175, <<1578>>>>, <<65176, <<1578>>>>, <<65177, <<1579>>>>,
    <<65178, <<1579>>>>, <<65179, <<1579>>>>, <<65180, <<1579>>>>,
    <<65181, <<1580>>>>, <<65182, <<1580>>>>, <<65183, <<1580>>>>,
    <<65184, <<1580>>>>, <<65185, <<1581>>>>, <<65186, <<1581>>>>,
    <<65187, <<1581>>>>, <<65188, <<1581>>>>, <<65189, <<1582>>>>,
    <<65190, <<1582>>>>, <<65191, <<1582>>>>, <<65192, <<1582>>>>,
    <<65193, <<1583>>>>, <<65194, <<1583>>>>, <<65195, <<1584>>>>,
    <<65196, <<1584>>>>, <<65197, <<1585>>>>, <<65198, <<1585>>>>,
    <<65199, <<1586>>>>, <<65200, <<1586>>>>, <<65201, <<1587>>>>,
    <<65202, <<1587>>>>, <<65203, <<1587>>>>, <<65204, <<1587>>>>,
    <<65205, <<1588>>>>, <<65206, <<1588>>>>, <<65207, <<1588>>>>,
    <<65208, <<1588>>>>, <<65209, <<1589>>>>, <<65210, <<1589>>>>,
    <<65211, <<1589>>>>, <<65212, <<1589>>>>, <<65213, <<1590>>>>,
    <<65214, <<1590>>>>, <<65215, <<1590>>>>, <<65216, <<1590>>>>,
    <<65217, <<1591>>>>, <<65218, <<1591>>>>, <<65219, <<1591>>>>,
    <<65220, <<1591>>>>, <<65221, <<1592>>>>, <<65222, <<1592>>>>,
    <<65223, <<1592>>>>, <<65224, <<1592>>>>, <<65225, <<1593>>>>,
    <<65226, <<1593>>>>, <<65227, <<1593>>>>, <<65228, <<1593>>>>,
    <<65229, <<1594>>>>, <<65230, <<1594>>>>, <<65231, <<1594>>>>,
    <<65232, <<1594>>>>, <<65233, <<1601>>>>, <<65234, <<1601>>>>,
    <<65235, <<1601>>>>, <<65236, <<1601>>>>, <<65237, <<1602>>>>,
    <<65238, <<1602>>>>, <<65239, <<1602>>>>, <<65240, <<1602>>>>,
    <<65241, <<1603>>>>, <<65242, <<1603>>>>, <<65243, <<1603>>>>,
    <<65244, <<1603>>>>, <<65245, <<1604>>>>, <<65246, <<1604>>>>,
    <<65247, <<1604>>>>, <<65248, <<1604>>>>, <<65249, <<1605>>>>,
    <<65250, <<1605>>>>, <<65251, <<1605>>>>, <<65252, <<1605>>>>,
    <<65253, <<1606>>>>, <<65254, <<1606>>>>, <<65255, <<1606>>>>,
    <<65256, <<1606>>>>, <<65257, <<1607>>>>, <<65258, <<1607>>>>,
    <<65259, <<1607>>>>, <<65260, <<1607>>>>, <<65261, <<1608>>>>,
    <<65262, <<1608>>>>, <<65263, <<1609>>>>, <<65264, <<1609>>>>,
    <<65265, <<1610>>>>, <<65266, <<1610>>>>, <<65267, <<1610>>>>,
    <<65268, <<1610>>>>, <<65269, <<1604, 1575>>>>,
    <<65270, <<1604, 1575>>>>, <<65271, <<1604, 1575>>>>,
    <<65272, <<1604, 1575>>>>, <<65273, <<1604, 1575>>>>,
    <<65274, <<1604, 1575>>>>, <<65275, <<1604, 1575>>>>,
    <<65276, <<1604, 1575>>>>, <<65281, <<33>>>>, <<65282, <<34>>>>,
    <<65283, <<35>>>>, <<65284, <<36>>>>, <<65285, <<37>>>>,
    <<65286, <<38>>>>, <<65287, <<39>>>>, <<65288, <<40>>>>,
    <<65289, <<41>>>>, <<65290, <<42>>>>, <<65291, <<43>>>>,
    <<65292, <<44>>>>, <<65293, <<45>>>>, <<65294, <<46>>>>,
    <<65295, <<47>>>>, <<65296, <<48>>>>, <<65297, <<49>>>>,
    <<65298, <<50>>>>, <<65299, <<51>>>>, <<65300, <<52>>>>,
    <<65301, <<53>>>>, <<65302, <<54>>>>, <<65303, <<55>>>>,
    <<65304, <<56>>>>, <<65305, <<57>>>>, <<65306, <<58>>>>,
    <<65307, <<59>>>>, <<65308, <<60>>>>, <<65309, <<61>>>>,
    <<65310, <<62>>>>, <<65311, <<63>>>>, <<65312, <<64>>>>,
    <<65313, <<65>>>>, <<65314, <<66>>>>, <<65315, <<67>>>>,
    <<65316, <<68>>>>, <<65317, <<69>>>>, <<65318, <<70>>>>,
    <<65319, <<71>>>>, <<65320, <<72>>>>, <<65321, <<73>>>>,
    <<65322, <<74>>>>, <<65323, <<75>>>>, <<65324, <<76>>>>,
    <<65325, <<77>>>>, <<65326, <<78>>>>, <<65327, <<79>>>>,
    <<65328, <<80>>>>, <<65329, <<81>>>>, <<65330, <<82>>>>,
    <<65331, <<83>>>>, <<65332, <<84>>>>, <<65333, <<85>>>>,
    <<65334, <<86>>>>, <<65335, <<87>>>>, <<65336, <<88>>>>,
    <<65337, <<89>>>>, <<65338, <<90>>>>, <<65339, <<91>>>>,
    <<65340, <<92>>>>, <<65341, <<93>>>>, <<65342, <<94>>>>,
    <<65343, <<95>>>>, <<65344, <<96>>>>, <<65345, <<97>>>>,
    <<65346, <<98>>>>, <<65347, <<99>>>>, <<65348, <<100>>>>,
    <<65349, <<101>>>>, <<65350, <<102>>>>, <<65351, <<103>>>>,
    <<65352, <<104>>>>, <<65353, <<105>>>>, <<65354, <<106>>>>,
    <<65355, <<107>>>>, <<65356, <<108>>>>, <<65357, <<109>>>>,
    <<65358, <<110>>>>, <<65359, <<111>>>>, <<65360, <<112>>>>,
    <<65361, <<113>>>>, <<65362, <<114>>>>, <<65363, <<115>>>>,
    <<65364, <<116>>>>, <<65365, <<117>>>>, <<65366, <<118>>>>,
    <<65367, <<119>>>>, <<65368, <<120>>>>, <<65369, <<121>>>>,
    <<65370, <<122>>>>, <<65371, <<123>>>>, <<65372, <<124>>>>,
    <<65373, <<125>>>>, <<65374, <<126>>>>, <<65375, <<10629>>>>,
    <<65376, <<10630>>>>, <<65377, <<12290>>>>, <<65378, <<12300>>>>,
    <<65379, <<12301>>>>, <<65380, <<12289>>>>, <<65381, <<12539>>>>,
    <<65382, <<12530>>>>, <<65383, <<12449>>>>, <<65384, <<12451>>>>,
    <<65385, <<12453>>>>, <<65386, <<12455>>>>, <<65387, <<12457>>>>,
    <<65388, <<12515>>>>, <<65389, <<12517>>>>, <<65390, <<12519>>>>,
    <<65391, <<12483>>>>, <<65392, <<12540>>>>, <<65393, <<12450>>>>,
    <<65394, <<12452>>>>, <<65395, <<12454>>>>, <<65396, <<12456>>>>,
    <<65397, <<12458>>>>, <<65398, <<12459>>>>, <<65399, <<12461>>>>,
    <<65400, <<12463>>>>, <<65401, <<12465>>>>, <<65402, <<12467>>>>,
    <<65403, <<12469>>>>, <<65404, <<12471>>>>, <<65405, <<12473>>>>,
    <<65406, <<12475>>>>, <<65407, <<12477>>>>, <<65408, <<12479>>>>,
    <<65409, <<12481>>>>, <<65410, <<12484>>>>, <<65411, <<12486>>>>,
    <<65412, <<12488>>>>, <<65413, <<12490>>>>, <<65414, <<12491>>>>,
    <<65415, <<12492>>>>, <<65416, <<12493>>>>, <<65417, <<12494>>>>,
    <<65418, <<12495>>>>, <<65419, <<12498>>>>, <<65420, <<12501>>>>,
    <<65421, <<12504>>>>, <<65422, <<12507>>>>, <<65423, <<12510>>>>,
    <<65424, <<12511>>>>, <<65425, <<12512>>>>, <<65426, <<12513>>>>,
    <<65427, <<12514>>>>, <<65428, <<12516>>>>, <<65429, <<12518>>>>,
    <<65430, <<12520>>>>, <<65431, <<12521>>>>, <<65432, <<12522>>>>,
    <<65433, <<12523>>>>, <<65434, <<12524>>>>, <<65435, <<12525>>>>,
    <<65436, <<12527>>>>, <<65437, <<12531>>>>, <<65438, <<>>>>,
    <<65439, <<>>>>, <<65440, <<4448>>>>, <<65441, <<4352>>>>,
    <<65442, <<4353>>>>, <<65443, <<4522>>>>, <<65444, <<4354>>>>,
    <<65445, <<4524>>>>, <<65446, <<4525>>>>, <<65447, <<4355>>>>,
    <<65448, <<4356>>>>, <<65449, <<4357>>>>, <<65450, <<4528>>>>,
    <<65451, <<4529>>>>, <<65452, <<4530>>>>, <<65453, <<4531>>>>,
    <<65454, <<4532>>>>, <<65455, <<4533>>>>, <<65456, <<4378>>>>,
    <<65457, <<4358>>>>, <<65458, <<4359>>>>, <<65459, <<4360>>>>,
    <<65460, <<4385>>>>, <<65461, <<4361>>>>, <<65462, <<4362>>>>,
    <<65463, <<4363>>>>, <<65464, <<4364>>>>, <<65465, <<4365>>>>,
    <<65466, <<4366>>>>, <<65467, <<4367>>>>, <<65468, <<4368>>>>,
    <<65469, <<4369>>>>, <<65470, <<4370>>>>, <<65474, <<4449>>>>,
    <<65475, <<4450>>>>, <<65476, <<4451>>>>, <<65477, <<4452>>>>,
    <<65478, <<4453>>>>, <<65479, <<4454>>>>, <<65482, <<4455>>>>,
    <<65483, <<4456>>>>, <<65484, <<4457>>>>, <<65485, <<4458>>>>,
    <<65486, <<4459>>>>, <<65487, <<4460>>>>, <<65490, <<4461>>>>,
    <<65491, <<4462>>>>, <<65492, <<4463>>>>, <<65493, <<4464>>>>,
    <<65494, <<4465>>>>, <<65495, <<4466>>>>, <<65498, <<4467>>>>,
    <<65499, <<4468>>>>, <<65500, <<4469>>>>, <<65504, <<162>>>>,
    <<65505, <<163>>>>, <<65506, <<172>>>>, <<65507, <<32>>>>,
    <<65508, <<166>>>>, <<65509, <<165>>>>, <<65510, <<8361>>>>,
    <<65512, <<9474>>>>, <<65513, <<8592>>>>, <<65514, <<8593>>>>,
    <<65515, <<8594>>>>, <<65516, <<8595>>>>, <<65517, <<9632>>>>,
    <<65518, <<9675>>>>, <<67457, <<720>>>>, <<67458, <<721>>>>,
    <<67459, <<230>>>>, <<67460, <<665>>>>, <<67461, <<595>>>>,
    <<67463, <<675>>>>, <<67464, <<43878>>>>, <<67465, <<677>>>>,
    <<67466, <<676>>>>, <<67467, <<598>>>>, <<67468, <<599>>>>,
    <<67469, <<7569>>>>, <<67470, <<600>>>>, <<67471, <<606>>>>,
    <<67472, <<681>>>>, <<67473, <<612>>>>, <<67474, <<610>>>>,
    <<67475, <<608>>>>, <<67476, <<667>>>>, <<67477, <<295>>>>,
    <<67478, <<668>>>>, <<67479, <<615>>>>, <<67480, <<644>>>>,
    <<67481, <<682>>>>, <<67482, <<683>>>>, <<67483, <<620>>>>,
    <<67484, <<122628>>>>, <<67485, <<42894>>>>, <<67486, <<622>>>>,
    <<67487, <<122629>>>>, <<67488, <<654>>>>, <<67489, <<122630>>>>,
    <<67490, <<248>>>>, <<67491, <<630>>>>, <<67492, <<631>>>>,
    <<67493, <<113>>>>, <<67494, <<634>>>>, <<67495, <<122632>>>>,
    <<67496, <<637>>>>, <<67497, <<638>>>>, <<67498, <<640>>>>,
    <<67499, <<680>>>>, <<67500, <<678>>>>, <<67501, <<43879>>>>,
    <<67502, <<679>>>>, <<67503, <<648>>>>, <<67504, <<11377>>>>,
    <<67506, <<655>>>>, <<67507, <<673>>>>, <<67508, <<674>>>>,
    <<67509, <<664>>>>, <<67510, <<448>>>>, <<67511, <<449>>>>,
    <<67512, <<450>>>>, <<67513, <<122634>>>>, <<67514, <<122654>>>>,
    <<69786, <<69785>>>>, <<69788, <<69787>>>>, <<69803, <<69797>>>>,
    <<69934, <<69937, 69927>>>>, <<69935, <<69938, 69927>>>>,
    <<70475, <<70471, 70462>>>>, <<70476, <<70471, 70487>>>>,
    <<70843, <<70841, 70842>>>>, <<70844, <<70841, 70832>>>>,
    <<70846, <<70841, 70845>>>>, <<71098, <<71096, 71087>>>>,
    <<71099, <<71097, 71087>>>>, <<71992, <<71989, 71984>>>>,
    <<119134, <<119127>>>>, <<119135, <<119128>>>>, <<119136, <<119128>>>>,
    <<119137, <<119128>>>>, <<119138, <<119128>>>>, <<119139, <<119128>>>>,
    <<119140, <<119128>>>>, <<119227, <<119225>>>>, <<119228, <<119226>>>>,
    <<119229, <<119225>>>>, <<119230, <<119226>>>>, <<119231, <<119225>>>>,
    <<119232, <<119226>>>>, <<119808, <<65>>>>, <<119809, <<66>>>>,
    <<119810, <<67>>>>, <<119811, <<68>>>>, <<119812, <<69>>>>,
    <<119813, <<70>>>>, <<119814, <<71>>>>, <<119815, <<72>>>>,
    <<119816, <<73>>>>, <<119817, <<74>>>>, <<119818, <<75>>>>,
    <<119819, <<76>>>>, <<119820, <<77>>>>, <<119821, <<78>>>>,
    <<119822, <<79>>>>, <<119823, <<80>>>>, <<119824, <<81>>>>,
    <<119825, <<82>>>>, <<119826, <<83>>>>, <<119827, <<84>>>>,
    <<119828, <<85>>>>, <<119829, <<86>>>>, <<119830, <<87>>>>,
    <<119831, <<88>>>>, <<119832, <<89>>>>, <<119833, <<90>>>>,
    <<119834, <<97>>>>, <<119835, <<98>>>>, <<119836, <<99>>>>,
    <<119837, <<100>>>>, <<119838, <<101>>>>, <<119839, <<102>>>>,
    <<119840, <<103>>>>, <<119841, <<104>>>>, <<119842, <<105>>>>,
    <<119843, <<106>>>>, <<119844, <<107>>>>, <<119845, <<108>>>>,
    <<119846, <<109>>>>, <<119847, <<110>>>>, <<119848, <<111>>>>,
    <<119849, <<112>>>>, <<119850, <<113>>>>, <<119851, <<114>>>>,
    <<119852, <<115>>>>, <<119853, <<116>>>>, <<119854, <<117>>>>,
    <<119855, <<118>>>>, <<119856, <<119>>>>, <<119857, <<120>>>>,
    <<119858, <<121>>>>, <<119859, <<122>>>>, <<119860, <<65>>>>,
    <<119861, <<66>>>>, <<119862, <<67>>>>, <<119863, <<68>>>>,
    <<119864, <<69>>>>, <<119865, <<70>>>>, <<119866, <<71>>>>,
    <<119867, <<72>>>>, <<119868, <<73>>>>, <<119869, <<74>>>>,
    <<119870, <<75>>>>, <<119871, <<76>>>>, <<119872, <<77>>>>,
    <<119873, <<78>>>>, <<119874, <<79>>>>, <<119875, <<80>>>>,
    <<119876, <<81>>>>, <<119877, <<82>>>>, <<119878, <<83>>>>,
    <<119879, <<84>>>>, <<119880, <<85>>>>, <<119881, <<86>>>>,
    <<119882, <<87>>>>, <<119883, <<88>>>>, <<119884, <<89>>>>,
    <<119885, <<90>>>>, <<119886, <<97>>>>, <<119887, <<98>>>>,
    <<119888, <<99>>>>, <<119889, <<100>>>>, <<119890, <<101>>>>,
    <<119891, <<102>>>>, <<119892, <<103>>>>, <<119894, <<105>>>>,
    <<119895, <<106>>>>, <<119896, <<107>>>>, <<119897, <<108>>>>,
    <<119898, <<109>>>>, <<119899, <<110>>>>, <<119900, <<111>>>>,
    <<119901, <<112>>>>, <<119902, <<113>>>>, <<119903, <<114>>>>,
    <<119904, <<115>>>>, <<119905, <<116>>>>, <<119906, <<117>>>>,
    <<119907, <<118>>>>, <<119908, <<119>>>>, <<119909, <<120>>>>,
    <<119910, <<121>>>>, <<119911, <<122>>>>, <<119912, <<65>>>>,
    <<119913, <<66>>>>, <<119914, <<67>>>>, <<119915, <<68>>>>,
    <<119916, <<69>>>>, <<119917, <<70>>>>, <<119918, <<71>>>>,
    <<119919, <<72>>>>, <<119920, <<73>>>>, <<119921, <<74>>>>,
    <<119922, <<75>>>>, <<119923, <<76>>>>, <<119924, <<77>>>>,
    <<119925, <<78>>>>, <<119926, <<79>>>>, <<119927, <<80>>>>,
    <<119928, <<81>>>>, <<119929, <<82>>>>, <<119930, <<83>>>>,
    <<119931, <<84>>>>, <<119932, <<85>>>>, <<119933, <<86>>>>,
    <<119934, <<87>>>>, <<119935, <<88>>>>, <<119936, <<89>>>>,
    <<119937, <<90>>>>, <<119938, <<97>>>>, <<119939, <<98>>>>,
    <<119940, <<99>>>>, <<119941, <<100>>>>, <<119942, <<101>>>>,
    <<119943, <<102>>>>, <<119944, <<103>>>>, <<119945, <<104>>>>,
    <<119946, <<105>>>>, <<119947, <<106>>>>, <<119948, <<107>>>>,
    <<119949, <<108>>>>, <<119950, <<109>>>>, <<119951, <<110>>>>,
    <<119952, <<111>>>>, <<119953, <<112>>>>, <<119954, <<113>>>>,
    <<119955, <<114>>>>, <<119956, <<115>>>>, <<119957, <<116>>>>,
    <<119958, <<117>>>>, <<119959, <<118>>>>, <<119960, <<119>>>>,
    <<119961, <<120>>>>, <<119962, <<121>>>>, <<119963, <<122>>>>,
    <<119964, <<65>>>>, <<119966, <<67>>>>, <<119967, <<68>>>>,
    <<119970, <<71>>>>, <<119973, <<74>>>>, <<119974, <<75>>>>,
    <<119977, <<78>>>>, <<119978, <<79>>>>, <<119979, <<80>>>>,
    <<119980, <<81>>>>, <<119982, <<83>>>>, <<119983, <<84>>>>,
    <<119984, <<85>>>>, <<119985, <<86>>>>, <<119986, <<87>>>>,
    <<119987, <<88>>>>, <<119988, <<89>>>>, <<119989, <<90>>>>,
    <<119990, <<97>>>>, <<119991, <<98>>>>, <<119992, <<99>>>>,
    <<119993, <<100>>>>, <<119995, <<102>>>>, <<119997, <<104>>>>,
    <<119998, <<105>>>>, <<119999, <<106>>>>, <<120000, <<107>>>>,
    <<120001, <<108>>>>, <<120002, <<109>>>>, <<120003, <<110>>>>,
    <<120005, <<112>>>>, <<120006, <<113>>>>, <<120007, <<114>>>>,
    <<120008, <<115>>>>, <<120009, <<116>>>>, <<120010, <<117>>>>,
    <<120011, <<118>>>>, <<120012, <<119>>>>, <<120013, <<120>>>>,
    <<120014, <<121>>>>, <<120015, <<122>>>>, <<120016, <<65>>>>,
    <<120017, <<66>>>>, <<120018, <<67>>>>, <<120019, <<68>>>>,
    <<120020, <<69>>>>, <<120021, <<70>>>>, <<120022, <<71>>>>,
    <<120023, <<72>>>>, <<120024, <<73>>>>, <<120025, <<74>>>>,
    <<120026, <<75>>>>, <<120027, <<76>>>>, <<120028, <<77>>>>,
    <<120029, <<78>>>>, <<120030, <<79>>>>, <<120031, <<80>>>>,
    <<120032, <<81>>>>, <<120033, <<82>>>>, <<120034, <<83>>>>,
    <<120035, <<84>>>>, <<120036, <<85>>>>, <<120037, <<86>>>>,
    <<120038, <<87>>>>, <<120039, <<88>>>>, <<120040, <<89>>>>,
    <<120041, <<90>>>>, <<120042, <<97>>>>, <<120043, <<98>>>>,
    <<120044, <<99>>>>, <<120045, <<100>>>>, <<120046, <<101>>>>,
    <<120047, <<102>>>>, <<120048, <<103>>>>, <<120049, <<104>>>>,
    <<120050, <<105>>>>, <<120051, <<106>>>>, <<120052, <<107>>>>,
    <<120053, <<108>>>>, <<120054, <<109>>>>, <<120055, <<110>>>>,
    <<120056, <<111>>>>, <<120057, <<112>>>>, <<120058, <<113>>>>,
    <<120059, <<114>>>>, <<120060, <<115>>>>, <<120061, <<116>>>>,
    <<120062, <<117>>>>, <<120063, <<118>>>>, <<120064, <<119>>>>,
    <<120065, <<120>>>>, <<120066, <<121>>>>, <<120067, <<122>>>>,
    <<120068, <<65>>>>, <<120069, <<66>>>>, <<120071, <<68>>>>,
    <<120072, <<69>>>>, <<120073, <<70>>>>, <<120074, <<71>>>>,
    <<120077, <<74>>>>, <<120078, <<75>>>>, <<120079, <<76>>>>,
    <<120080, <<77>>>>, <<120081, <<78>>>>, <<120082, <<79>>>>,
    <<120083, <<80>>>>, <<120084, <<81>>>>, <<120086, <<83>>>>,
    <<120087, <<84>>>>, <<120088, <<85>>>>, <<120089, <<86>>>>,
    <<120090, <<87>>>>, <<120091, <<88>>>>, <<120092, <<89>>>>,
    <<120094, <<97>>>>, <<120095, <<98>>>>, <<120096, <<99>>>>,
    <<120097, <<100>>>>, <<120098, <<101>>>>, <<120099, <<102>>>>,
    <<120100, <<103>>>>, <<120101, <<104>>>>, <<120102, <<105>>>>,
    <<120103, <<106>>>>, <<120104, <<107>>>>, <<120105, <<108>>>>,
    <<120106, <<109>>>>, <<120107, <<110>>>>, <<120108, <<111>>>>,
    <<120109, <<112>>>>, <<120110, <<113>>>>, <<120111, <<114>>>>,
    <<120112, <<115>>>>, <<120113, <<116>>>>, <<120114, <<117>>>>,
    <<120115, <<118>>>>, <<120116, <<119>>>>, <<120117, <<120>>>>,
    <<120118, <<121>>>>, <<120119, <<122>>>>, <<120120, <<65>>>>,
    <<120121, <<66>>>>, <<120123, <<68>>>>, <<120124, <<69>>>>,
    <<120125, <<70>>>>, <<120126, <<71>>>>, <<120128, <<73>>>>,
    <<120129, <<74>>>>, <<120130, <<75>>>>, <<120131, <<76>>>>,
    <<120132, <<77>>>>, <<120134, <<79>>>>, <<120138, <<83>>>>,
    <<120139, <<84>>>>, <<120140, <<85>>>>, <<120141, <<86>>>>,
    <<120142, <<87>>>>, <<120143, <<88>>>>, <<120144, <<89>>>>,
    <<120146, <<97>>>>, <<120147, <<98>>>>, <<120148, <<99>>>>,
    <<120149, <<100>>>>, <<120150, <<101>>>>, <<120151, <<102>>>>,
    <<120152, <<103>>>>, <<120153, <<104>>>>, <<120154, <<105>>>>,
    <<120155, <<106>>>>, <<120156, <<107>>>>, <<120157, <<108>>>>,
    <<120158, <<109>>>>, <<120159, <<110>>>>, <<120160, <<111>>>>,
    <<120161, <<112>>>>, <<120162, <<113>>>>, <<120163, <<114>>>>,
    <<120164, <<115>>>>, <<120165, <<116>>>>, <<120166, <<117>>>>,
    <<120167, <<118>>>>, <<120168, <<119>>>>, <<120169, <<120>>>>,
    <<120170, <<121>>>>, <<120171, <<122>>>>, <<120172, <<65>>>>,
    <<120173, <<66>>>>, <<120174, <<67>>>>, <<120175, <<68>>>>,
    <<120176, <<69>>>>, <<120177, <<70>>>>, <<120178, <<71>>>>,
    <<120179, <<72>>>>, <<120180, <<73>>>>, <<120181, <<74>>>>,
    <<120182, <<75>>>>, <<120183, <<76>>>>, <<120184, <<77>>>>,
    <<120185, <<78>>>>, <<120186, <<79>>>>, <<120187, <<80>>>>,
    <<120188, <<81>>>>, <<120189, <<82>>>>, <<120190, <<83>>>>,
    <<120191, <<84>>>>, <<120192, <<85>>>>, <<120193, <<86>>>>,
    <<120194, <<87>>>>, <<120195, <<88>>>>, <<120196, <<89>>>>,
    <<120197, <<90>>>>, <<120198, <<97>>>>, <<120199, <<98>>>>,
    <<120200, <<99>>>>, <<120201, <<100>>>>, <<120202, <<101>>>>,
    <<120203, <<102>>>>, <<120204, <<103>>>>, <<120205, <<104>>>>,
    <<120206, <<105>>>>, <<120207, <<106>>>>, <<120208, <<107>>>>,
    <<120209, <<108>>>>, <<120210, <<109>>>>, <<120211, <<110>>>>,
    <<120212, <<111>>>>, <<120213, <<112>>>>, <<120214, <<113>>>>,
    <<120215, <<114>>>>, <<120216, <<115>>>>, <<120217, <<116>>>>,
    <<120218, <<117>>>>, <<120219, <<118>>>>, <<120220, <<119>>>>,
    <<120221, <<120>>>>, <<120222, <<121>>>>, <<120223, <<122>>>>,
    <<120224, <<65>>>>, <<120225, <<66>>>>, <<120226, <<67>>>>,
    <<120227, <<68>>>>, <<120228, <<69>>>>, <<120229, <<70>>>>,
    <<120230, <<71>>>>, <<120231, <<72>>>>, <<120232, <<73>>>>,
    <<120233, <<74>>>>, <<120234, <<75>>>>, <<120235, <<76>>>>,
    <<120236, <<77>>>>, <<120237, <<78>>>>, <<120238, <<79>>>>,
    <<120239, <<80>>>>, <<120240, <<81>>>>, <<120241, <<82>>>>,
    <<120242, <<83>>>>, <<120243, <<84>>>>, <<120244, <<85>>>>,
    <<120245, <<86>>>>, <<120246, <<87>>>>, <<120247, <<88>>>>,
    <<120248, <<89>>>>, <<120249, <<90>>>>, <<120250, <<97>>>>,
    <<120251, <<98>>>>, <<120252, <<99>>>>, <<120253, <<100>>>>,
    <<120254, <<101>>>>, <<120255, <<102>>>>, <<120256, <<103>>>>,
    <<120257, <<104>>>>, <<120258, <<105>>>>, <<120259, <<106>>>>,
    <<120260, <<107>>>>, <<120261, <<108>>>>, <<120262, <<109>>>>,
    <<120263, <<110>>>>, <<120264, <<111>>>>, <<120265, <<112>>>>,
    <<120266, <<113>>>>, <<120267, <<114>>>>, <<120268, <<115>>>>,
    <<120269, <<116>>>>, <<120270, <<117>>>>, <<120271, <<118>>>>,
    <<120272, <<119>>>>, <<120273, <<120>>>>, <<120274, <<121>>>>,
    <<120275, <<122>>>>, <<120276, <<65>>>>, <<120277, <<66>>>>,
    <<120278, <<67>>>>, <<120279, <<68>>>>, <<120280, <<69>>>>,
    <<120281, <<70>>>>, <<120282, <<71>>>>, <<120283, <<72>>>>,
    <<120284, <<73>>>>, <<120285, <<74>>>>, <<120286, <<75>>>>,
    <<120287, <<76>>>>, <<120288, <<77>>>>, <<120289, <<78>>>>,
    <<120290, <<79>>>>, <<120291, <<80>>>>, <<120292, <<81>>>>,
    <<120293, <<82>>>>, <<120294, <<83>>>>, <<120295, <<84>>>>,
    <<120296, <<85>>>>, <<120297, <<86>>>>, <<120298, <<87>>>>,
    <<120299, <<88>>>>, <<120300, <<89>>>>, <<120301, <<90>>>>,
    <<120302, <<97>>>>, <<120303, <<98>>>>, <<120304, <<99>>>>,
    <<120305, <<100>>>>, <<120306, <<101>>>>, <<120307, <<102>>>>,
    <<120308, <<103>>>>, <<120309, <<104>>>>, <<120310, <<105>>>>,
    <<120311, <<106>>>>, <<120312, <<107>>>>, <<120313, <<108>>>>,
    <<120314, <<109>>>>, <<120315, <<110>>>>, <<120316, <<111>>>>,
    <<120317, <<112>>>>, <<120318, <<113>>>>, <<120319, <<114>>>>,
    <<120320, <<115>>>>, <<120321, <<116>>>>, <<120322, <<117>>>>,
    <<120323, <<118>>>>, <<120324, <<119>>>>, <<120325, <<120>>>>,
    <<120326, <<121>>>>, <<120327, <<122>>>>, <<120328, <<65>>>>,
    <<120329, <<66>>>>, <<120330, <<67>>>>, <<120331, <<68>>>>,
    <<120332, <<69>>>>, <<120333, <<70>>>>, <<120334, <<71>>>>,
    <<120335, <<72>>>>, <<120336, <<73>>>>, <<120337, <<74>>>>,
    <<120338, <<75>>>>, <<120339, <<76>>>>, <<120340, <<77>>>>,
    <<120341, <<78>>>>, <<120342, <<79>>>>, <<120343, <<80>>>>,
    <<120344, <<81>>>>, <<120345, <<82>>>>, <<120346, <<83>>>>,
    <<120347, <<84>>>>, <<120348, <<85>>>>, <<120349, <<86>>>>,
    <<120350, <<87>>>>, <<120351, <<88>>>>, <<120352, <<89>>>>,
    <<120353, <<90>>>>, <<120354, <<97>>>>, <<120355, <<98>>>>,
    <<120356, <<99>>>>, <<120357, <<100>>>>, <<120358, <<101>>>>,
    <<120359, <<102>>>>, <<120360, <<103>>>>, <<120361, <<104>>>>,
    <<120362, <<105>>>>, <<120363, <<106>>>>, <<120364, <<107>>>>,
    <<120365, <<108>>>>, <<120366, <<109>>>>, <<120367, <<110>>>>,
    <<120368, <<111>>>>, <<120369, <<112>>>>, <<120370, <<113>>>>,
    <<120371, <<114>>>>, <<120372, <<115>>>>, <<120373, <<116>>>>,
    <<120374, <<117>>>>, <<120375, <<118>>>>, <<120376, <<119>>>>,
    <<120377, <<120>>>>, <<120378, <<121>>>>, <<120379, <<122>>>>,
    <<120380, <<65>>>>, <<120381, <<66>>>>, <<120382, <<67>>>>,
    <<120383, <<68>>>>, <<120384, <<69>>>>, <<120385, <<70>>>>,
    <<120386, <<71>>>>, <<120387, <<72>>>>, <<120388, <<73>>>>,
    <<120389, <<74>>>>, <<120390, <<75>>>>, <<120391, <<76>>>>,
    <<120392, <<77>>>>, <<120393, <<78>>>>, <<120394, <<79>>>>,
    <<120395, <<80>>>>, <<120396, <<81>>>>, <<120397, <<82>>>>,
    <<120398, <<83>>>>, <<120399, <<84>>>>, <<120400, <<85>>>>,
    <<120401, <<86>>>>, <<120402, <<87>>>>, <<120403, <<88>>>>,
    <<120404, <<89>>>>, <<120405, <<90>>>>, <<120406, <<97>>>>,
    <<120407, <<98>>>>, <<120408, <<99>>>>, <<120409, <<100>>>>,
    <<120410, <<101>>>>, <<120411, <<102>>>>, <<120412, <<103>>>>,
    <<120413, <<104>>>>, <<120414, <<105>>>>, <<120415, <<106>>>>,
    <<120416, <<107>>>>, <<120417, <<108>>>>, <<120418, <<109>>>>,
    <<120419, <<110>>>>, <<120420, <<111>>>>, <<120421, <<112>>>>,
    <<120422, <<113>>>>, <<120423, <<114>>>>, <<120424, <<115>>>>,
    <<120425, <<116>>>>, <<120426, <<117>>>>, <<120427, <<118>>>>,
    <<120428, <<119>>>>, <<120429, <<120>>>>, <<120430, <<121>>>>,
    <<120431, <<122>>>>, <<120432, <<65>>>>, <<120433, <<66>>>>,
    <<120434, <<67>>>>, <<120435, <<68>>>>, <<120436, <<69>>>>,
    <<120437, <<70>>>>, <<120438, <<71>>>>, <<120439, <<72>>>>,
    <<120440, <<73>>>>, <<120441, <<74>>>>, <<120442, <<75>>>>,
    <<120443, <<76>>>>, <<120444, <<77>>>>, <<120445, <<78>>>>,
    <<120446, <<79>>>>, <<120447, <<80>>>>, <<120448, <<81>>>>,
    <<120449, <<82>>>>, <<120450, <<83>>>>, <<120451, <<84>>>>,
    <<120452, <<85>>>>, <<120453, <<86>>>>, <<120454, <<87>>>>,
    <<120455, <<88>>>>, <<120456, <<89>>>>, <<120457, <<90>>>>,
    <<120458, <<97>>>>, <<120459, <<98>>>>, <<120460, <<99>>>>,
    <<120461, <<100>>>>, <<120462, <<101>>>>, <<120463, <<102>>>>,
    <<120464, <<103>>>>, <<120465, <<104>>>>, <<120466, <<105>>>>,
    <<120467, <<106>>>>, <<120468, <<107>>>>, <<120469, <<108>>>>,
    <<120470, <<109>>>>, <<120471, <<110>>>>, <<120472, <<111>>>>,
    <<120473, <<112>>>>, <<120474, <<113>>>>, <<120475, <<114>>>>,
    <<120476, <<115>>>>, <<120477, <<116>>>>, <<120478, <<117>>>>,
    <<120479, <<118>>>>, <<120480, <<119>>>>, <<120481, <<120>>>>,
    <<120482, <<121>>>>, <<120483, <<122>>>>, <<120484, <<305>>>>,
    <<120485, <<567>>>>, <<120488, <<913>>>>, <<120489, <<914>>>>,
    <<120490, <<915>>>>, <<120491, <<916>>>>, <<120492, <<917>>>>,
    <<120493, <<918>>>>, <<120494, <<919>>>>, <<120495, <<920>>>>,
    <<120496, <<921>>>>, <<120497, <<922>>>>, <<120498, <<923>>>>,
    <<120499, <<924>>>>, <<120500, <<925>>>>, <<120501, <<926>>>>,
    <<120502, <<927>>>>, <<120503, <<928>>>>, <<120504, <<929>>>>,
    <<120505, <<920>>>>, <<120506, <<931>>>>, <<120507, <<932>>>>,
    <<120508, <<933>>>>, <<120509, <<934>>>>, <<120510, <<935>>>>,
    <<120511, <<936>>>>, <<120512, <<937>>>>, <<120513, <<8711>>>>,
    <<120514, <<945>>>>, <<120515, <<946>>>>, <<120516, <<947>>>>,
    <<120517, <<948>>>>, <<120518, <<949>>>>, <<120519, <<950>>>>,
    <<120520, <<951>>>>, <<120521, <<952>>>>, <<120522, <<953>>>>,
    <<120523, <<954>>>>, <<120524, <<955>>>>, <<120525, <<956>>>>,
    <<120526, <<957>>>>, <<120527, <<958>>>>, <<120528, <<959>>>>,
    <<120529, <<960>>>>, <<120530, <<961>>>>, <<120531, <<962>>>>,
    <<120532, <<963>>>>, <<120533, <<964>>>>, <<120534, <<965>>>>,
    <<120535, <<966>>>>, <<120536, <<967>>>>, <<120537, <<968>>>>,
    <<120538, <<969>>>>, <<120539, <<8706>>>>, <<120540, <<949>>>>,
    <<120541, <<952>>>>, <<120542, <<954>>>>, <<120543, <<966>>>>,
    <<120544, <<961>>>>, <<120545, <<960>>>>, <<120546, <<913>>>>,
    <<120547, <<914>>>>, <<120548, <<915>>>>, <<120549, <<916>>>>,
    <<120550, <<917>>>>, <<120551, <<918>>>>, <<120552, <<919>>>>,
    <<120553, <<920>>>>, <<120554, <<921>>>>, <<120555, <<922>>>>,
    <<120556, <<923>>>>, <<120557, <<924>>>>, <<120558, <<925>>>>,
    <<120559, <<926>>>>, <<120560, <<927>>>>, <<120561, <<928>>>>,
    <<120562, <<929>>>>, <<120563, <<920>>>>, <<120564, <<931>>>>,
    <<120565, <<932>>>>, <<120566, <<933>>>>, <<120567, <<934>>>>,
    <<120568, <<935>>>>, <<120569, <<936>>>>, <<120570, <<937>>>>,
    <<120571, <<8711>>>>, <<120572, <<945>>>>, <<120573, <<946>>>>,
    <<120574, <<947>>>>, <<120575, <<948>>>>, <<120576, <<949>>>>,
    <<120577, <<950>>>>, <<120578, <<951>>>>, <<120579, <<952>>>>,
    <<120580, <<953>>>>, <<120581, <<954>>>>, <<120582, <<955>>>>,
    <<120583, <<956>>>>, <<120584, <<957>>>>, <<120585, <<958>>>>,
    <<120586, <<959>>>>, <<120587, <<960>>>>, <<120588, <<961>>>>,
    <<120589, <<962>>>>, <<120590, <<963>>>>, <<120591, <<964>>>>,
    <<120592, <<965>>>>, <<120593, <<966>>>>, <<120594, <<967>>>>,
    <<120595, <<968>>>>, <<120596, <<969>>>>, <<120597, <<8706>>>>,
    <<120598, <<949>>>>, <<120599, <<952>>>>, <<120600, <<954>>>>,
    <<120601, <<966>>>>, <<120602, <<961>>>>, <<120603, <<960>>>>,
    <<120604, <<913>>>>, <<120605, <<914>>>>, <<120606, <<915>>>>,
    <<120607, <<916>>>>, <<120608, <<917>>>>, <<120609, <<918>>>>,
    <<120610, <<919>>>>, <<120611, <<920>>>>, <<120612, <<921>>>>,
    <<120613, <<922>>>>, <<120614, <<923>>>>, <<120615, <<924>>>>,
    <<120616, <<925>>>>, <<120617, <<926>>>>, <<120618, <<927>>>>,
    <<120619, <<928>>>>, <<120620, <<929>>>>, <<120621, <<920>>>>,
    <<120622, <<931>>>>, <<120623, <<932>>>>, <<120624, <<933>>>>,
    <<120625, <<934>>>>, <<120626, <<935>>>>, <<120627, <<936>>>>,
    <<120628, <<937>>>>, <<120629, <<8711>>>>, <<120630, <<945>>>>,
    <<120631, <<946>>>>, <<120632, <<947>>>>, <<120633, <<948>>>>,
    <<120634, <<949>>>>, <<120635, <<950>>>>, <<120636, <<951>>>>,
    <<120637, <<952>>>>, <<120638, <<953>>>>, <<120639, <<954>>>>,
    <<120640, <<955>>>>, <<120641, <<956>>>>, <<120642, <<957>>>>,
    <<120643, <<958>>>>, <<120644, <<959>>>>, <<120645, <<960>>>>,
    <<120646, <<961>>>>, <<120647, <<962>>>>, <<120648, <<963>>>>,
    <<120649, <<964>>>>, <<120650, <<965>>>>, <<120651, <<966>>>>,
    <<120652, <<967>>>>, <<120653, <<968>>>>, <<120654, <<969>>>>,
    <<120655, <<8706>>>>, <<120656, <<949>>>>, <<120657, <<952>>>>,
    <<120658, <<954>>>>, <<120659, <<966>>>>, <<120660, <<961>>>>,
    <<120661, <<960>>>>, <<120662, <<913>>>>, <<120663, <<914>>>>,
    <<120664, <<915>>>>, <<120665, <<916>>>>, <<120666, <<917>>>>,
    <<120667, <<918>>>>, <<120668, <<919>>>>, <<120669, <<920>>>>,
    <<120670, <<921>>>>, <<120671, <<922>>>>, <<120672, <<923>>>>,
    <<120673, <<924>>>>, <<120674, <<925>>>>, <<120675, <<926>>>>,
    <<120676, <<927>>>>, <<120677, <<928>>>>, <<120678, <<929>>>>,
    <<120679, <<920>>>>, <<120680, <<931>>>>, <<120681, <<932>>>>,
    <<120682, <<933>>>>, <<120683, <<934>>>>, <<120684, <<935>>>>,
    <<120685, <<936>>>>, <<120686, <<937>>>>, <<120687, <<8711>>>>,
    <<120688, <<945>>>>, <<120689, <<946>>>>, <<120690, <<947>>>>,
    <<120691, <<948>>>>, <<120692, <<949>>>>, <<120693, <<950>>>>,
    <<120694, <<951>>>>, <<120695, <<952>>>>, <<120696, <<953>>>>,
    <<120697, <<954>>>>, <<120698, <<955>>>>, <<120699, <<956>>>>,
    <<120700, <<957>>>>, <<120701, <<958>>>>, <<120702, <<959>>>>,
    <<120703, <<960>>>>, <<120704, <<961>>>>, <<120705, <<962>>>>,
    <<120706, <<963>>>>, <<120707, <<964>>>>, <<120708, <<965>>>>,
    <<120709, <<966>>>>, <<120710, <<967>>>>, <<120711, <<968>>>>,
    <<120712, <<969>>>>, <<120713, <<8706>>>>, <<120714, <<949>>>>,
    <<120715, <<952>>>>, <<120716, <<954>>>>, <<120717, <<966>>>>,
    <<120718, <<961>>>>, <<120719, <<960>>>>, <<120720, <<913>>>>,
    <<120721, <<914>>>>, <<120722, <<915>>>>, <<120723, <<916>>>>,
    <<120724, <<917>>>>, <<120725, <<918>>>>, <<120726, <<919>>>>,
    <<120727, <<920>>>>, <<120728, <<921>>>>, <<120729, <<922>>>>,
    <<120730, <<923>>>>, <<120731, <<924>>>>, <<120732, <<925>>>>,
    <<120733, <<926>>>>, <<120734, <<927>>>>, <<120735, <<928>>>>,
    <<120736, <<929>>>>, <<120737, <<920>>>>, <<120738, <<931>>>>,
    <<120739, <<932>>>>, <<120740, <<933>>>>, <<120741, <<934>>>>,
    <<120742, <<935>>>>, <<120743, <<936>>>>, <<120744, <<937>>>>,
    <<120745, <<8711>>>>, <<120746, <<945>>>>, <<120747, <<946>>>>,
    <<120748, <<947>>>>, <<120749, <<948>>>>, <<120750, <<949>>>>,
    <<120751, <<950>>>>, <<120752, <<951>>>>, <<120753, <<952>>>>,
    <<120754, <<953>>>>, <<120755, <<954>>>>, <<120756, <<955>>>>,
    <<120757, <<956>>>>, <<120758, <<957>>>>, <<120759, <<958>>>>,
    <<120760, <<959>>>>, <<120761, <<960>>>>, <<120762, <<961>>>>,
    <<120763, <<962>>>>, <<120764, <<963>>>>, <<120765, <<964>>>>,
    <<120766, <<965>>>>, <<120767, <<966>>>>, <<120768, <<967>>>>,
    <<120769, <<968>>>>, <<120770, <<969>>>>, <<120771, <<8706>>>>,
    <<120772, <<949>>>>, <<120773, <<952>>>>, <<120774, <<954>>>>,
    <<120775, <<966>>>>, <<120776, <<961>>>>, <<120777, <<960>>>>,
    <<120778, <<988>>>>, <<120779, <<989>>>>, <<120782, <<48>>>>,
    <<120783, <<49>>>>, <<120784, <<50>>>>, <<120785, <<51>>>>,
    <<120786, <<52>>>>, <<120787, <<53>>>>, <<120788, <<54>>>>,
    <<120789, <<55>>>>, <<120790, <<56>>>>, <<120791, <<57>>>>,
    <<120792, <<48>>>>, <<120793, <<49>>>>, <<120794, <<50>>>>,
    <<120795, <<51>>>>, <<120796, <<52>>>>, <<120797, <<53>>>>,
    <<120798, <<54>>>>, <<120799, <<55>>>>, <<120800, <<56>>>>,
    <<120801, <<57>>>>, <<120802, <<48>>>>, <<120803, <<49>>>>,
    <<120804, <<50>>>>, <<120805, <<51>>>>, <<120806, <<52>>>>,
    <<120807, <<53>>>>, <<120808, <<54>>>>, <<120809, <<55>>>>,
    <<120810, <<56>>>>, <<120811, <<57>>>>, <<120812, <<48>>>>,
    <<120813, <<49>>>>, <<120814, <<50>>>>, <<120815, <<51>>>>,
    <<120816, <<52>>>>, <<120817, <<53>>>>, <<120818, <<54>>>>,
    <<120819, <<55>>>>, <<120820, <<56>>>>, <<120821, <<57>>>>,
    <<120822, <<48>>>>, <<120823, <<49>>>>, <<120824, <<50>>>>,
    <<120825, <<51>>>>, <<120826, <<52>>>>, <<120827, <<53>>>>,
    <<120828, <<54>>>>, <<120829, <<55>>>>, <<120830, <<56>>>>,
    <<120831, <<57>>>>, <<126464, <<1575>>>>, <<126465, <<1576>>>>,
    <<126466, <<1580>>>>, <<126467, <<1583>>>>, <<126469, <<1608>>>>,
    <<126470, <<1586>>>>, <<126471, <<1581>>>>, <<126472, <<1591>>>>,
    <<126473, <<1610>>>>, <<126474, <<1603>>>>, <<126475, <<1604>>>>,
    <<126476, <<1605>>>>, <<126477, <<1606>>>>, <<126478, <<1587>>>>,
    <<126479, <<1593>>>>, <<126480, <<1601>>>>, <<126481, <<1589>>>>,
    <<126482, <<1602>>>>, <<126483, <<1585>>>>, <<126484, <<1588>>>>,
    <<126485, <<1578>>>>, <<126486, <<1579>>>>, <<126487, <<1582>>>>,
    <<126488, <<1584>>>>, <<126489, <<1590>>>>, <<126490, <<1592>>>>,
    <<126491, <<1594>>>>, <<126492, <<1646>>>>, <<126493, <<1722>>>>,
    <<126494, <<1697>>>>, <<126495, <<1647>>>>, <<126497, <<1576>>>>,
    <<126498, <<1580>>>>, <<126500, <<1607>>>>, <<126503, <<1581>>>>,
    <<126505, <<1610>>>>, <<126506, <<1603>>>>, <<126507, <<1604>>>>,
    <<126508, <<1605>>>>, <<126509, <<1606>>>>, <<126510, <<1587>>>>,
    <<126511, <<1593>>>>, <<126512, <<1601>>>>, <<126513, <<1589>>>>,
    <<126514, <<1602>>>>, <<126516, <<1588>>>>, <<126517, <<1578>>>>,
    <<126518, <<1579>>>>, <<126519, <<1582>>>>, <<126521, <<1590>>>>,
    <<126523, <<1594>>>>, <<126530, <<1580>>>>, <<126535, <<1581>>>>,
    <<126537, <<1610>>>>, <<126539, <<1604>>>>, <<126541, <<1606>>>>,
    <<126542, <<1587>>>>, <<126543, <<1593>>>>, <<126545, <<1589>>>>,
    <<126546, <<1602>>>>, <<126548, <<1588>>>>, <<126551, <<1582>>>>,
    <<126553, <<1590>>>>, <<126555, <<1594>>>>, <<126557, <<1722>>>>,
    <<126559, <<1647>>>>, <<126561, <<1576>>>>, <<126562, <<1580>>>>,
    <<126564, <<1607>>>>, <<126567, <<1581>>>>, <<126568, <<1591>>>>,
    <<126569, <<1610>>>>, <<126570, <<1603>>>>, <<126572, <<1605>>>>,
    <<126573, <<1606>>>>, <<126574, <<1587>>>>, <<126575, <<1593>>>>,
    <<126576, <<1601>>>>, <<126577, <<1589>>>>, <<126578, <<1602>>>>,
    <<126580, <<1588>>>>, <<126581, <<1578>>>>, <<126582, <<1579>>>>,
    <<126583, <<1582>>>>, <<126585, <<1590>>>>, <<126586, <<1592>>>>,
    <<126587, <<1594>>>>, <<126588, <<1646>>>>, <<126590, <<1697>>>>,
    <<126592, <<1575>>>>, <<126593, <<1576>>>>, <<126594, <<1580>>>>,
    <<126595, <<1583>>>>, <<126596, <<1607>>>>, <<126597, <<1608>>>>,
    <<126598, <<1586>>>>, <<126599, <<1581>>>>, <<126600, <<1591>>>>,
    <<126601, <<1610>>>>, <<126603, <<1604>>>>, <<126604, <<1605>>>>,
    <<126605, <<1606>>>>, <<126606, <<1587>>>>, <<126607, <<1593>>>>,
    <<126608, <<1601>>>>, <<126609, <<1589>>>>, <<126610, <<1602>>>>,
    <<126611, <<1585>>>>, <<126612, <<1588>>>>, <<126613, <<1578>>>>,
    <<126614, <<1579>>>>, <<126615, <<1582>>>>, <<126616, <<1584>>>>,
    <<126617, <<1590>>>>, <<126618, <<1592>>>>, <<126619, <<1594>>>>,
    <<126625, <<1576>>>>, <<126626, <<1580>>>>, <<126627, <<1583>>>>,
    <<126629, <<1608>>>>, <<126630, <<1586>>>>, <<126631, <<1581>>>>,
    <<126632, <<1591>>>>, <<126633, <<1610>>>>, <<126635, <<1604>>>>,
    <<126636, <<1605>>>>, <<126637, <<1606>>>>, <<126638, <<1587>>>>,
    <<126639, <<1593>>>>, <<126640, <<1601>>>>, <<126641, <<1589>>>>,
    <<126642, <<1602>>>>, <<126643, <<1585>>>>, <<126644, <<1588>>>>,
    <<126645, <<1578>>>>, <<126646, <<1579>>>>, <<126647, <<1582>>>>,
    <<126648, <<1584>>>>, <<126649, <<1590>>>>, <<126650, <<1592>>>>,
    <<126651, <<1594>>>>, <<127232, <<48, 46>>>>, <<127233, <<48, 44>>>>,
    <<127234, <<49, 44>>>>, <<127235, <<50, 44>>>>, <<127236, <<51, 44>>>>,
    <<127237, <<52, 44>>>>, <<127238, <<53, 44>>>>, <<127239, <<54, 44>>>>,
    <<127240, <<55, 44>>>>, <<127241, <<56, 44>>>>, <<127242, <<57, 44>>>>,
    <<127248, <<40, 65, 41>>>>, <<127249, <<40, 66, 41>>>>,
    <<127250, <<40, 67, 41>>>>, <<127251, <<40, 68, 41>>>>,
    <<127252, <<40, 69, 41>>>>, <<127253, <<40, 70, 41>>>>,
    <<127254, <<40, 71, 41>>>>, <<127255, <<40, 72, 41>>>>,
    <<127256, <<40, 73, 41>>>>, <<127257, <<40, 74, 41>>>>,
    <<127258, <<40, 75, 41>>>>, <<127259, <<40, 76, 41>>>>,
    <<127260, <<40, 77, 41>>>>, <<127261, <<40, 78, 41>>>>,
    <<127262, <<40, 79, 41>>>>, <<127263, <<40, 80, 41>>>>,
    <<127264, <<40, 81, 41>>>>, <<127265, <<40, 82, 41>>>>,
    <<127266, <<40, 83, 41>>>>, <<127267, <<40, 84, 41>>>>,
    <<127268, <<40, 85, 41>>>>, <<127269, <<40, 86, 41>>>>,
    <<127270, <<40, 87, 41>>>>, <<127271, <<40, 88, 41>>>>,
    <<127272, <<40, 89, 41>>>>, <<127273, <<40, 90, 41>>>>,
    <<127274, <<12308, 83, 12309>>>>, <<127275, <<67>>>>, <<127276, <<82>>>>,
    <<127277, <<67, 68>>>>, <<127278, <<87, 90>>>>, <<127280, <<65>>>>,
    <<127281, <<66>>>>, <<127282, <<67>>>>, <<127283, <<68>>>>,
    <<127284, <<69>>>>, <<127285, <<70>>>>, <<127286, <<71>>>>,
    <<127287, <<72>>>>, <<127288, <<73>>>>, <<127289, <<74>>>>,
    <<127290, <<75>>>>, <<127291, <<76>>>>, <<127292, <<77>>>>,
    <<127293, <<78>>>>, <<127294, <<79>>>>, <<127295, <<80>>>>,
    <<127296, <<81>>>>, <<127297, <<82>>>>, <<127298, <<83>>>>,
    <<127299, <<84>>>>, <<127300, <<85>>>>, <<127301, <<86>>>>,
    <<127302, <<87>>>>, <<127303, <<88>>>>, <<127304, <<89>>>>,
    <<127305, <<90>>>>, <<127306, <<72, 86>>>>, <<127307, <<77, 86>>>>,
    <<127308, <<83, 68>>>>, <<127309, <<83, 83>>>>,
    <<127310, <<80, 80, 86>>>>, <<127311, <<87, 67>>>>,
    <<127338, <<77, 67>>>>, <<127339, <<77, 68>>>>, <<127340, <<77, 82>>>>,
    <<127376, <<68, 74>>>>, <<127488, <<12411, 12363>>>>,
    <<127489, <<12467, 12467>>>>, <<127490, <<12469>>>>,
    <<127504, <<25163>>>>, <<127505, <<23383>>>>, <<127506, <<21452>>>>,
    <<127507, <<12486>>>>, <<127508, <<20108>>>>, <<127509, <<22810>>>>,
    <<127510, <<35299>>>>, <<127511, <<22825>>>>, <<127512, <<20132>>>>,
    <<127513, <<26144>>>>, <<127514, <<28961>>>>, <<127515, <<26009>>>>,
    <<127516, <<21069>>>>, <<127517, <<24460>>>>, <<127518, <<20877>>>>,
    <<127519, <<26032>>>>, <<127520, <<21021>>>>, <<127521, <<32066>>>>,
    <<127522, <<29983>>>>, <<127523, <<36009>>>>, <<127524, <<22768>>>>,
    <<127525, <<21561>>>>, <<127526, <<28436>>>>, <<127527, <<25237>>>>,
    <<127528, <<25429>>>>, <<127529, <<19968>>>>, <<127530, <<19977>>>>,
    <<127531, <<36938>>>>, <<127532, <<24038>>>>, <<127533, <<20013>>>>,
    <<127534, <<21491>>>>, <<127535, <<25351>>>>, <<127536, <<36208>>>>,
    <<127537, <<25171>>>>, <<127538, <<31105>>>>, <<127539, <<31354>>>>,
    <<127540, <<21512>>>>, <<127541, <<28288>>>>, <<127542, <<26377>>>>,
    <<127543, <<26376>>>>, <<127544, <<30003>>>>, <<127545, <<21106>>>>,
    <<127546, <<21942>>>>, <<127547, <<37197>>>>,
    <<127552, <<12308, 26412, 12309>>>>, <<127553, <<12308, 19977, 12309>>>>,
    <<127554, <<12308, 20108, 12309>>>>, <<127555, <<12308, 23433, 12309>>>>,
    <<127556, <<12308, 28857, 12309>>>>, <<127557, <<12308, 25171, 12309>>>>,
    <<127558, <<12308, 30423, 12309>>>>, <<127559, <<12308, 21213, 12309>>>>,
    <<127560, <<12308, 25943, 12309>>>>, <<127568, <<24471>>>>,
    <<127569, <<21487>>>>, <<130032, <<48>>>>, <<130033, <<49>>>>,
    <<130034, <<50>>>>, <<130035, <<51>>>>, <<130036, <<52>>>>,
    <<130037, <<53>>>>, <<130038, <<54>>>>, <<130039, <<55>>>>,
    <<130040, <<56>>>>, <<130041, <<57>>>>, <<194560, <<20029>>>>,
    <<194561, <<20024>>>>, <<194562, <<20033>>>>, <<194563, <<131362>>>>,
    <<194564, <<20320>>>>, <<194565, <<20398>>>>, <<194566, <<20411>>>>,
    <<194567, <<20482>>>>, <<194568, <<20602>>>>, <<194569, <<20633>>>>,
    <<194570, <<20711>>>>, <<194571, <<20687>>>>, <<194572, <<13470>>>>,
    <<194573, <<132666>>>>, <<194574, <<20813>>>>, <<194575, <<20820>>>>,
    <<194576, <<20836>>>>, <<194577, <<20855>>>>, <<194578, <<132380>>>>,
    <<194579, <<13497>>>>, <<194580, <<20839>>>>, <<194581, <<20877>>>>,
    <<194582, <<132427>>>>, <<194583, <<20887>>>>, <<194584, <<20900>>>>,
    <<194585, <<20172>>>>, <<194586, <<20908>>>>, <<194587, <<20917>>>>,
    <<194588, <<168415>>>>, <<194589, <<20981>>>>, <<194590, <<20995>>>>,
    <<194591, <<13535>>>>, <<194592, <<21051>>>>, <<194593, <<21062>>>>,
    <<194594, <<21106>>>>, <<194595, <<21111>>>>, <<194596, <<13589>>>>,
    <<194597, <<21191>>>>, <<194598, <<21193>>>>, <<194599, <<21220>>>>,
    <<194600, <<21242>>>>, <<194601, <<21253>>>>, <<194602, <<21254>>>>,
    <<194603, <<21271>>>>, <<194604, <<21321>>>>, <<194605, <<21329>>>>,
    <<194606, <<21338>>>>, <<194607, <<21363>>>>, <<194608, <<21373>>>>,
    <<194609, <<21375>>>>, <<194610, <<21375>>>>, <<194611, <<21375>>>>,
    <<194612, <<133676>>>>, <<194613, <<28784>>>>, <<194614, <<21450>>>>,
    <<194615, <<21471>>>>, <<194616, <<133987>>>>, <<194617, <<21483>>>>,
    <<194618, <<21489>>>>, <<194619, <<21510>>>>, <<194620, <<21662>>>>,
    <<194621, <<21560>>>>, <<194622, <<21576>>>>, <<194623, <<21608>>>>,
    <<194624, <<21666>>>>, <<194625, <<21750>>>>, <<194626, <<21776>>>>,
    <<194627, <<21843>>>>, <<194628, <<21859>>>>, <<194629, <<21892>>>>,
    <<194630, <<21892>>>>, <<194631, <<21913>>>>, <<194632, <<21931>>>>,
    <<194633, <<21939>>>>, <<194634, <<21954>>>>, <<194635, <<22294>>>>,
    <<194636, <<22022>>>>, <<194637, <<22295>>>>, <<194638, <<22097>>>>,
    <<194639, <<22132>>>>, <<194640, <<20999>>>>, <<194641, <<22766>>>>,
    <<194642, <<22478>>>>, <<194643, <<22516>>>>, <<194644, <<22541>>>>,
    <<194645, <<22411>>>>, <<194646, <<22578>>>>, <<194647, <<22577>>>>,
    <<194648, <<22700>>>>, <<194649, <<136420>>>>, <<194650, <<22770>>>>,
    <<194651, <<22775>>>>, <<194652, <<22790>>>>, <<194653, <<22810>>>>,
    <<194654, <<22818>>>>, <<194655, <<22882>>>>, <<194656, <<136872>>>>,
    <<194657, <<136938>>>>, <<194658, <<23020>>>>, <<194659, <<23067>>>>,
    <<194660, <<23079>>>>, <<194661, <<23000>>>>, <<194662, <<23142>>>>,
    <<194663, <<14062>>>>, <<194664, <<14076>>>>, <<194665, <<23304>>>>,
    <<194666, <<23358>>>>, <<194667, <<23358>>>>, <<194668, <<137672>>>>,
    <<194669, <<23491>>>>, <<194670, <<23512>>>>, <<194671, <<23527>>>>,
    <<194672, <<23539>>>>, <<194673, <<138008>>>>, <<194674, <<23551>>>>,
    <<194675, <<23558>>>>, <<194676, <<24403>>>>, <<194677, <<23586>>>>,
    <<194678, <<14209>>>>, <<194679, <<23648>>>>, <<194680, <<23662>>>>,
    <<194681, <<23744>>>>, <<194682, <<23693>>>>, <<194683, <<138724>>>>,
    <<194684, <<23875>>>>, <<194685, <<138726>>>>, <<194686, <<23918>>>>,
    <<194687, <<23915>>>>, <<194688, <<23932>>>>, <<194689, <<24033>>>>,
    <<194690, <<24034>>>>, <<194691, <<14383>>>>, <<194692, <<24061>>>>,
    <<194693, <<24104>>>>, <<194694, <<24125>>>>, <<194695, <<24169>>>>,
    <<194696, <<14434>>>>, <<194697, <<139651>>>>, <<194698, <<14460>>>>,
    <<194699, <<24240>>>>, <<194700, <<24243>>>>, <<194701, <<24246>>>>,
    <<194702, <<24266>>>>, <<194703, <<172946>>>>, <<194704, <<24318>>>>,
    <<194705, <<140081>>>>, <<194706, <<140081>>>>, <<194707, <<33281>>>>,
    <<194708, <<24354>>>>, <<194709, <<24354>>>>, <<194710, <<14535>>>>,
    <<194711, <<144056>>>>, <<194712, <<156122>>>>, <<194713, <<24418>>>>,
    <<194714, <<24427>>>>, <<194715, <<14563>>>>, <<194716, <<24474>>>>,
    <<194717, <<24525>>>>, <<194718, <<24535>>>>, <<194719, <<24569>>>>,
    <<194720, <<24705>>>>, <<194721, <<14650>>>>, <<194722, <<14620>>>>,
    <<194723, <<24724>>>>, <<194724, <<141012>>>>, <<194725, <<24775>>>>,
    <<194726, <<24904>>>>, <<194727, <<24908>>>>, <<194728, <<24910>>>>,
    <<194729, <<24908>>>>, <<194730, <<24954>>>>, <<194731, <<24974>>>>,
    <<194732, <<25010>>>>, <<194733, <<24996>>>>, <<194734, <<25007>>>>,
    <<194735, <<25054>>>>, <<194736, <<25074>>>>, <<194737, <<25078>>>>,
    <<194738, <<25104>>>>, <<194739, <<25115>>>>, <<194740, <<25181>>>>,
    <<194741, <<25265>>>>, <<194742, <<25300>>>>, <<194743, <<25424>>>>,
    <<194744, <<142092>>>>, <<194745, <<25405>>>>, <<194746, <<25340>>>>,
    <<194747, <<25448>>>>, <<194748, <<25475>>>>, <<194749, <<25572>>>>,
    <<194750, <<142321>>>>, <<194751, <<25634>>>>, <<194752, <<25541>>>>,
    <<194753, <<25513>>>>, <<194754, <<14894>>>>, <<194755, <<25705>>>>,
    <<194756, <<25726>>>>, <<194757, <<25757>>>>, <<194758, <<25719>>>>,
    <<194759, <<14956>>>>, <<194760, <<25935>>>>, <<194761, <<25964>>>>,
    <<194762, <<143370>>>>, <<194763, <<26083>>>>, <<194764, <<26360>>>>,
    <<194765, <<26185>>>>, <<194766, <<15129>>>>, <<194767, <<26257>>>>,
    <<194768, <<15112>>>>, <<194769, <<15076>>>>, <<194770, <<20882>>>>,
    <<194771, <<20885>>>>, <<194772, <<26368>>>>, <<194773, <<26268>>>>,
    <<194774, <<32941>>>>, <<194775, <<17369>>>>, <<194776, <<26391>>>>,
    <<194777, <<26395>>>>, <<194778, <<26401>>>>, <<194779, <<26462>>>>,
    <<194780, <<26451>>>>, <<194781, <<144323>>>>, <<194782, <<15177>>>>,
    <<194783, <<26618>>>>, <<194784, <<26501>>>>, <<194785, <<26706>>>>,
    <<194786, <<26757>>>>, <<194787, <<144493>>>>, <<194788, <<26766>>>>,
    <<194789, <<26655>>>>, <<194790, <<26900>>>>, <<194791, <<15261>>>>,
    <<194792, <<26946>>>>, <<194793, <<27043>>>>, <<194794, <<27114>>>>,
    <<194795, <<27304>>>>, <<194796, <<145059>>>>, <<194797, <<27355>>>>,
    <<194798, <<15384>>>>, <<194799, <<27425>>>>, <<194800, <<145575>>>>,
    <<194801, <<27476>>>>, <<194802, <<15438>>>>, <<194803, <<27506>>>>,
    <<194804, <<27551>>>>, <<194805, <<27578>>>>, <<194806, <<27579>>>>,
    <<194807, <<146061>>>>, <<194808, <<138507>>>>, <<194809, <<146170>>>>,
    <<194810, <<27726>>>>, <<194811, <<146620>>>>, <<194812, <<27839>>>>,
    <<194813, <<27853>>>>, <<194814, <<27751>>>>, <<194815, <<27926>>>>,
    <<194816, <<27966>>>>, <<194817, <<28023>>>>, <<194818, <<27969>>>>,
    <<194819, <<28009>>>>, <<194820, <<28024>>>>, <<194821, <<28037>>>>,
    <<194822, <<146718>>>>, <<194823, <<27956>>>>, <<194824, <<28207>>>>,
    <<194825, <<28270>>>>, <<194826, <<15667>>>>, <<194827, <<28363>>>>,
    <<194828, <<28359>>>>, <<194829, <<147153>>>>, <<194830, <<28153>>>>,
    <<194831, <<28526>>>>, <<194832, <<147294>>>>, <<194833, <<147342>>>>,
    <<194834, <<28614>>>>, <<194835, <<28729>>>>, <<194836, <<28702>>>>,
    <<194837, <<28699>>>>, <<194838, <<15766>>>>, <<194839, <<28746>>>>,
    <<194840, <<28797>>>>, <<194841, <<28791>>>>, <<194842, <<28845>>>>,
    <<194843, <<132389>>>>, <<194844, <<28997>>>>, <<194845, <<148067>>>>,
    <<194846, <<29084>>>>, <<194847, <<148395>>>>, <<194848, <<29224>>>>,
    <<194849, <<29237>>>>, <<194850, <<29264>>>>, <<194851, <<149000>>>>,
    <<194852, <<29312>>>>, <<194853, <<29333>>>>, <<194854, <<149301>>>>,
    <<194855, <<149524>>>>, <<194856, <<29562>>>>, <<194857, <<29579>>>>,
    <<194858, <<16044>>>>, <<194859, <<29605>>>>, <<194860, <<16056>>>>,
    <<194861, <<16056>>>>, <<194862, <<29767>>>>, <<194863, <<29788>>>>,
    <<194864, <<29809>>>>, <<194865, <<29829>>>>, <<194866, <<29898>>>>,
    <<194867, <<16155>>>>, <<194868, <<29988>>>>, <<194869, <<150582>>>>,
    <<194870, <<30014>>>>, <<194871, <<150674>>>>, <<194872, <<30064>>>>,
    <<194873, <<139679>>>>, <<194874, <<30224>>>>, <<194875, <<151457>>>>,
    <<194876, <<151480>>>>, <<194877, <<151620>>>>, <<194878, <<16380>>>>,
    <<194879, <<16392>>>>, <<194880, <<30452>>>>, <<194881, <<151795>>>>,
    <<194882, <<151794>>>>, <<194883, <<151833>>>>, <<194884, <<151859>>>>,
    <<194885, <<30494>>>>, <<194886, <<30495>>>>, <<194887, <<30495>>>>,
    <<194888, <<30538>>>>, <<194889, <<16441>>>>, <<194890, <<30603>>>>,
    <<194891, <<16454>>>>, <<194892, <<16534>>>>, <<194893, <<152605>>>>,
    <<194894, <<30798>>>>, <<194895, <<30860>>>>, <<194896, <<30924>>>>,
    <<194897, <<16611>>>>, <<194898, <<153126>>>>, <<194899, <<31062>>>>,
    <<194900, <<153242>>>>, <<194901, <<153285>>>>, <<194902, <<31119>>>>,
    <<194903, <<31211>>>>, <<194904, <<16687>>>>, <<194905, <<31296>>>>,
    <<194906, <<31306>>>>, <<194907, <<31311>>>>, <<194908, <<153980>>>>,
    <<194909, <<154279>>>>, <<194910, <<154279>>>>, <<194911, <<31470>>>>,
    <<194912, <<16898>>>>, <<194913, <<154539>>>>, <<194914, <<31686>>>>,
    <<194915, <<31689>>>>, <<194916, <<16935>>>>, <<194917, <<154752>>>>,
    <<194918, <<31954>>>>, <<194919, <<17056>>>>, <<194920, <<31976>>>>,
    <<194921, <<31971>>>>, <<194922, <<32000>>>>, <<194923, <<155526>>>>,
    <<194924, <<32099>>>>, <<194925, <<17153>>>>, <<194926, <<32199>>>>,
    <<194927, <<32258>>>>, <<194928, <<32325>>>>, <<194929, <<17204>>>>,
    <<194930, <<156200>>>>, <<194931, <<156231>>>>, <<194932, <<17241>>>>,
    <<194933, <<156377>>>>, <<194934, <<32634>>>>, <<194935, <<156478>>>>,
    <<194936, <<32661>>>>, <<194937, <<32762>>>>, <<194938, <<32773>>>>,
    <<194939, <<156890>>>>, <<194940, <<156963>>>>, <<194941, <<32864>>>>,
    <<194942, <<157096>>>>, <<194943, <<32880>>>>, <<194944, <<144223>>>>,
    <<194945, <<17365>>>>, <<194946, <<32946>>>>, <<194947, <<33027>>>>,
    <<194948, <<17419>>>>, <<194949, <<33086>>>>, <<194950, <<23221>>>>,
    <<194951, <<157607>>>>, <<194952, <<157621>>>>, <<194953, <<144275>>>>,
    <<194954, <<144284>>>>, <<194955, <<33281>>>>, <<194956, <<33284>>>>,
    <<194957, <<36766>>>>, <<194958, <<17515>>>>, <<194959, <<33425>>>>,
    <<194960, <<33419>>>>, <<194961, <<33437>>>>, <<194962, <<21171>>>>,
    <<194963, <<33457>>>>, <<194964, <<33459>>>>, <<194965, <<33469>>>>,
    <<194966, <<33510>>>>, <<194967, <<158524>>>>, <<194968, <<33509>>>>,
    <<194969, <<33565>>>>, <<194970, <<33635>>>>, <<194971, <<33709>>>>,
    <<194972, <<33571>>>>, <<194973, <<33725>>>>, <<194974, <<33767>>>>,
    <<194975, <<33879>>>>, <<194976, <<33619>>>>, <<194977, <<33738>>>>,
    <<194978, <<33740>>>>, <<194979, <<33756>>>>, <<194980, <<158774>>>>,
    <<194981, <<159083>>>>, <<194982, <<158933>>>>, <<194983, <<17707>>>>,
    <<194984, <<34033>>>>, <<194985, <<34035>>>>, <<194986, <<34070>>>>,
    <<194987, <<160714>>>>, <<194988, <<34148>>>>, <<194989, <<159532>>>>,
    <<194990, <<17757>>>>, <<194991, <<17761>>>>, <<194992, <<159665>>>>,
    <<194993, <<159954>>>>, <<194994, <<17771>>>>, <<194995, <<34384>>>>,
    <<194996, <<34396>>>>, <<194997, <<34407>>>>, <<194998, <<34409>>>>,
    <<194999, <<34473>>>>, <<195000, <<34440>>>>, <<195001, <<34574>>>>,
    <<195002, <<34530>>>>, <<195003, <<34681>>>>, <<195004, <<34600>>>>,
    <<195005, <<34667>>>>, <<195006, <<34694>>>>, <<195007, <<17879>>>>,
    <<195008, <<34785>>>>, <<195009, <<34817>>>>, <<195010, <<17913>>>>,
    <<195011, <<34912>>>>, <<195012, <<34915>>>>, <<195013, <<161383>>>>,
    <<195014, <<35031>>>>, <<195015, <<35038>>>>, <<195016, <<17973>>>>,
    <<195017, <<35066>>>>, <<195018, <<13499>>>>, <<195019, <<161966>>>>,
    <<195020, <<162150>>>>, <<195021, <<18110>>>>, <<195022, <<18119>>>>,
    <<195023, <<35488>>>>, <<195024, <<35565>>>>, <<195025, <<35722>>>>,
    <<195026, <<35925>>>>, <<195027, <<162984>>>>, <<195028, <<36011>>>>,
    <<195029, <<36033>>>>, <<195030, <<36123>>>>, <<195031, <<36215>>>>,
    <<195032, <<163631>>>>, <<195033, <<133124>>>>, <<195034, <<36299>>>>,
    <<195035, <<36284>>>>, <<195036, <<36336>>>>, <<195037, <<133342>>>>,
    <<195038, <<36564>>>>, <<195039, <<36664>>>>, <<195040, <<165330>>>>,
    <<195041, <<165357>>>>, <<195042, <<37012>>>>, <<195043, <<37105>>>>,
    <<195044, <<37137>>>>, <<195045, <<165678>>>>, <<195046, <<37147>>>>,
    <<195047, <<37432>>>>, <<195048, <<37591>>>>, <<195049, <<37592>>>>,
    <<195050, <<37500>>>>, <<195051, <<37881>>>>, <<195052, <<37909>>>>,
    <<195053, <<166906>>>>, <<195054, <<38283>>>>, <<195055, <<18837>>>>,
    <<195056, <<38327>>>>, <<195057, <<167287>>>>, <<195058, <<18918>>>>,
    <<195059, <<38595>>>>, <<195060, <<23986>>>>, <<195061, <<38691>>>>,
    <<195062, <<168261>>>>, <<195063, <<168474>>>>, <<195064, <<19054>>>>,
    <<195065, <<19062>>>>, <<195066, <<38880>>>>, <<195067, <<168970>>>>,
    <<195068, <<19122>>>>, <<195069, <<169110>>>>, <<195070, <<38923>>>>,
    <<195071, <<38923>>>>, <<195072, <<38953>>>>, <<195073, <<169398>>>>,
    <<195074, <<39138>>>>, <<195075, <<19251>>>>, <<195076, <<39209>>>>,
    <<195077, <<39335>>>>, <<195078, <<39362>>>>, <<195079, <<39422>>>>,
    <<195080, <<19406>>>>, <<195081, <<170800>>>>, <<195082, <<39698>>>>,
    <<195083, <<40000>>>>, <<195084, <<40189>>>>, <<195085, <<19662>>>>,
    <<195086, <<19693>>>>, <<195087, <<40295>>>>, <<195088, <<172238>>>>,
    <<195089, <<19704>>>>, <<195090, <<172293>>>>, <<195091, <<172558>>>>,
    <<195092, <<172689>>>>, <<195093, <<40635>>>>, <<195094, <<19798>>>>,
    <<195095, <<40697>>>>, <<195096, <<40702>>>>, <<195097, <<40709>>>>,
    <<195098, <<40719>>>>, <<195099, <<40726>>>>, <<195100, <<40763>>>>,
    <<195101, <<173568>>>>
    >>

\* the position in a table of ranges of the range that holds c, 0 if none
RECURSIVE FindRange(_, _, _, _)
FindRange(ranges, c, lo, hi) ==
    IF lo > hi THEN 0
    ELSE IF c < ranges[(lo + hi) \div 2][1]
        THEN FindRange(ranges, c, lo, (lo + hi) \div 2 - 1)
    ELSE IF c > ranges[(lo + hi) \div 2][2]
        THEN FindRange(ranges, c, (lo + hi) \div 2 + 1, hi)
    ELSE (lo + hi) \div 2

InRanges(ranges, c) == FindRange(ranges, c, 1, Len(ranges)) > 0

\* the position in a table of entries of the entry of c, 0 if none
RECURSIVE FindEntry(_, _, _, _)
FindEntry(table, c, lo, hi) ==
    IF lo > hi THEN 0
    ELSE IF c < table[(lo + hi) \div 2][1]
        THEN FindEntry(table, c, lo, (lo + hi) \div 2 - 1)
    ELSE IF c > table[(lo + hi) \div 2][1]
        THEN FindEntry(table, c, (lo + hi) \div 2 + 1, hi)
    ELSE (lo + hi) \div 2

\* the str of c in a table of entries, the character itself without entry
EntryOf(table, c) ==
    IF FindEntry(table, c, 1, Len(table)) = 0 THEN <<c>>
    ELSE table[FindEntry(table, c, 1, Len(table))][2]

IndexOf(seq, c) ==
    IF \E i \in 1..Len(seq) : seq[i] = c
    THEN CHOOSE i \in 1..Len(seq) : seq[i] = c
    ELSE 0

IsAscii(c) == c < 128
IsAsciiLower(c) == c \in 97..122
IsAsciiUpper(c) == c \in 65..90
IsAsciiDigit(c) == c \in 48..57
\* str.isspace on one character
IsSpace(c) == c \in WHITESPACE
\* the class \d of a str pattern, which is also the digits Decimal() reads:
\* every decimal digit, ASCII or not
IsDigit(c) ==
    \/ IsAsciiDigit(c)
    \/ /\ ~IsAscii(c)
       /\ \E k \in 1..Len(DECIMAL_ZEROS) : c - DECIMAL_ZEROS[k] \in 0..9
\* the value of a decimal digit
DigitVal(c) ==
    IF IsAsciiDigit(c) THEN c - 48
    ELSE c - DECIMAL_ZEROS[CHOOSE k \in 1..Len(DECIMAL_ZEROS) :
                               c - DECIMAL_ZEROS[k] \in 0..9]
\* the ASCII digits of a run of decimal digits, as Decimal() reads it
ascii_digits(s) == [i \in 1..Len(s) |-> 48 + DigitVal(s[i])]

\* the character class [A-Za-z0-9] of the regular expressions
IsAsciiAlnum(c) == IsAsciiLower(c) \/ IsAsciiUpper(c) \/ IsAsciiDigit(c)
\* the character class [a-z0-9]
IsLowerAlnum(c) == IsAsciiLower(c) \/ IsAsciiDigit(c)

\* str.isalpha / str.isalnum on one character
isalpha(c) ==
    \/ IsAsciiLower(c) \/ IsAsciiUpper(c)
    \/ ~IsAscii(c) /\ InRanges(ALPHA_RANGES, c)
isalnum(c) ==
    \/ IsAsciiAlnum(c)
    \/ ~IsAscii(c) /\ InRanges(ALNUM_RANGES, c)

----------------------------------------------------------------------------
(* str methods                                                             *)

\* str.lower / str.upper of a str of one character: a str, of two or three
\* characters for some (the capital I with a dot, the sharp s, ligatures)
lower_char(c) ==
    IF IsAsciiUpper(c) THEN <<c + 32>>
    ELSE IF IsAscii(c) THEN <<c>>
    ELSE EntryOf(LOWER_TABLE, c)
upper_char(c) ==
    IF IsAsciiLower(c) THEN <<c - 32>>
    ELSE IF IsAscii(c) THEN <<c>>
    ELSE EntryOf(UPPER_TABLE, c)

\* the capital sigma at position i ends a word: the nearest character
\* before it that is not case-ignorable is cased, and the nearest after it,
\* if there is one, is not
final_sigma(s, i) ==
    /\ \E j \in 1..(i - 1) :
          /\ ~InRanges(CASE_IGNORABLE_RANGES, s[j])
          /\ InRanges(CASED_RANGES, s[j])
          /\ \A k \in (j + 1)..(i - 1) : InRanges(CASE_IGNORABLE_RANGES, s[k])
    /\ \A j \in (i + 1)..Len(s) :
          \/ InRanges(CASE_IGNORABLE_RANGES, s[j])
          \/ ~InRanges(CASED_RANGES, s[j])
          \/ \E k \in (i + 1)..(j - 1) :
                ~InRanges(CASE_IGNORABLE_RANGES, s[k])

\* str.lower read from position i: a capital sigma (931) gives the final
\* sigma (962) at the end of a word and the small sigma (963) elsewhere
RECURSIVE lower_from(_, _)
lower_from(s, i) ==
    IF i > Len(s) THEN <<>>
    ELSE (IF s[i] = 931
          THEN (IF final_sigma(s, i) THEN <<962>> ELSE <<963>>)
          ELSE lower_char(s[i])) \o lower_from(s, i + 1)

\* str.upper read from position i
RECURSIVE upper_from(_, _)
upper_from(s, i) ==
    IF i > Len(s) THEN <<>> ELSE upper_char(s[i]) \o upper_from(s, i + 1)

\* str.lower on the ASCII letters alone
ascii_lower(s) ==
    [i \in 1..Len(s) |-> IF IsAsciiUpper(s[i]) THEN s[i] + 32 ELSE s[i]]

lower(s) ==
    IF \A i \in 1..Len(s) : IsAscii(s[i])
    THEN ascii_lower(s) ELSE lower_from(s, 1)
upper(s) == upper_from(s, 1)

endswith(s, suffix) ==
    /\ Len(suffix) <= Len(s)
    /\ SubSeq(s, Len(s) - Len(suffix) + 1, Len(s)) = suffix

\* str.strip().split(): the maximal runs of non-whitespace characters, in
\* order, read from position i
RECURSIVE split_from(_, _)
split_from(s, i) ==
    IF i > Len(s) THEN <<>>
    ELSE IF IsSpace(s[i]) THEN split_from(s, i + 1)
    ELSE LET blanks == {j \in i..Len(s) : IsSpace(s[j])}
             stop == IF blanks = {} THEN Len(s) + 1
                     ELSE CHOOSE j \in blanks : \A k \in blanks : j <= k
         IN  <<SubSeq(s, i, stop - 1)>> \o split_from(s, stop)

split(s) == split_from(s, 1)

\* str.strip()
RECURSIVE lstrip(_)
lstrip(s) == IF s # <<>> /\ IsSpace(Head(s)) THEN lstrip(Tail(s)) ELSE s
RECURSIVE rstrip_space(_)
rstrip_space(s) ==
    IF s # <<>> /\ IsSpace(s[Len(s)])
    THEN rstrip_space(SubSeq(s, 1, Len(s) - 1)) ELSE s
strip(s) == rstrip_space(lstrip(s))

----------------------------------------------------------------------------
(* Normalisation and vocabularies                                          *)

\* the NFKD decomposition of a Hangul syllable (44032..55203): its leading
\* consonant, its vowel and, if it has one, its trailing consonant
hangul(c) ==
    <<4352 + ((c - 44032) \div 588), 4449 + (((c - 44032) % 588) \div 28)>>
        \o (IF (c - 44032) % 28 = 0 THEN <<>>
            ELSE <<4519 + ((c - 44032) % 28)>>)

\* strip_accents on a str of one character: the characters of its NFKD
\* decomposition that are no combining marks
BaseLetter(c) ==
    IF IsAscii(c) THEN <<c>>
    ELSE IF InRanges(COMBINING_RANGES, c) THEN <<>>
    ELSE IF c \in 44032..55203 THEN hangul(c)
    ELSE EntryOf(NFKD_TABLE, c)

\* strip_accents changes the character
IsAccented(c) == BaseLetter(c) # <<c>>

\* unicodedata.normalize("NFKD", value) without its combining marks, read
\* from position i: normalisation only reorders the combining marks, which
\* are all dropped, so the result is made character by character
RECURSIVE strip_accents_from(_, _)
strip_accents_from(value, i) ==
    IF i > Len(value) THEN <<>>
    ELSE BaseLetter(value[i]) \o strip_accents_from(value, i + 1)

strip_accents(value) ==
    IF \A i \in 1..Len(value) : IsAscii(value[i]) THEN value
    ELSE strip_accents_from(value, 1)

normalize_keyword(token) ==
    SelectSeq(lower(strip_accents(token)), IsLowerAlnum)

clean_symbol_token(token) ==
    SelectSeq(strip_accents(token), IsAsciiAlnum)

RAW_SIDE_KEYWORDS ==
    { <<Str("buy"), "BUY">>,
      <<Str("sell"), "SELL">>,
      <<Str("acheter"), "BUY">>,
      <<Str("achete"), "BUY">>,
      <<Str("ach") \o <<232>> \o Str("te"), "BUY">>,   \* e with grave
      <<Str("achetez"), "BUY">>,
      <<Str("achetons"), "BUY">>,
      <<Str("vendre"), "SELL">>,
      <<Str("vend"), "SELL">>,
      <<Str("vends"), "SELL">>,
      <<Str("vendez"), "SELL">> }

RAW_ORDER_TYPE_KEYWORDS ==
    { <<Str("market"), "MARKET">>,
      <<Str("marche"), "MARKET">>,
      <<Str("march") \o <<233>>, "MARKET">>,         \* e with acute
      <<Str("limit"), "LIMIT">>,
      <<Str("limite"), "LIMIT">> }

\* {normalize_keyword(key): value for key, value in raw.items()}
NormalizedDict(raw) ==
    [k \in {normalize_keyword(p[1]) : p \in raw} |->
        CHOOSE v \in {p[2] : p \in raw} :
            \E p \in raw : normalize_keyword(p[1]) = k /\ p[2] = v]

SIDE_KEYWORDS == NormalizedDict(RAW_SIDE_KEYWORDS)
ORDER_TYPE_KEYWORDS == NormalizedDict(RAW_ORDER_TYPE_KEYWORDS)

RAW_CALLBACK_RATE_KEYWORDS ==
    { Str("callback"),
      Str("callback_rate"),
      Str("callbackrate"),
      Str("callback%"),
      Str("taux_callback"),
      Str("taux_de_callback"),
      Str("callback_pourcentage") }

CALLBACK_RATE_KEYWORDS ==
    {normalize_keyword(key) : key \in RAW_CALLBACK_RATE_KEYWORDS}

RAW_ACTIVATION_PRICE_KEYWORDS ==
    { Str("activation"),
      Str("activation_price"),
      Str("activationprice"),
      Str("prix_activation"),
      Str("prix_dactivation"),
      Str("activation_prix"),
      Str("trigger"),
      Str("trigger_price"),
      Str("triggerprice"),
      Str("prix_declenchement"),
      Str("prixdeclenchement"),
      Str("declenchement") }

ACTIVATION_PRICE_KEYWORDS ==
    {normalize_keyword(key) : key \in RAW_ACTIVATION_PRICE_KEYWORDS}

ORDER_KEYWORDS ==
    (DOMAIN SIDE_KEYWORDS) \cup (DOMAIN ORDER_TYPE_KEYWORDS)
        \cup CALLBACK_RATE_KEYWORDS \cup ACTIVATION_PRICE_KEYWORDS

KNOWN_SYMBOL_SUFFIXES ==
    { Str("USDT"),
      Str("USDC"),
      Str("BUSD"),
      Str("TUSD"),
      Str("FDUSD"),
      Str("DAI"),
      Str("BTC"),
      Str("ETH"),
      Str("BNB"),
      Str("BIDR"),
      Str("EUR"),
      Str("GBP"),
      Str("TRY"),
      Str("BRL"),
      Str("AUD"),
      Str("PAXG") }

\* next((table[token] for token in tokens if token in table), None),
\* scanning from (1-based) position i
RECURSIVE FirstInDict(_, _, _)
FirstInDict(tokens, table, i) ==
    IF i > Len(tokens) THEN None
    ELSE IF tokens[i] \in DOMAIN table THEN Some(table[tokens[i]])
    ELSE FirstInDict(tokens, table, i + 1)

----------------------------------------------------------------------------
(* Symbol extraction                                                       *)

isalnum_str(s) == s # <<>> /\ \A i \in 1..Len(s) : isalnum(s[i])
any_isalpha(s) == \E i \in 1..Len(s) : isalpha(s[i])

is_valid_candidate(candidate) ==
    /\ Len(candidate) >= 5
    /\ isalnum_str(candidate)
    /\ \E suffix \in KNOWN_SYMBOL_SUFFIXES : endswith(candidate, suffix)

\* the lookup written symbol[-4:] in KNOWN_SYMBOL_SUFFIXES
detect_quote_asset_FourCharacters(sym) ==
    LET matching == {suffix \in KNOWN_SYMBOL_SUFFIXES :
                        Len(suffix) = 4 /\ endswith(sym, suffix)}
    IN  IF matching = {} THEN None
        ELSE Some(CHOOSE suffix \in matching : TRUE)

\* sorted(KNOWN_SYMBOL_SUFFIXES, key=len, reverse=True) scanned for the first
\* suffix of the symbol: a matching suffix of maximal length.
detect_quote_asset(sym) ==
    LET matching == {suffix \in KNOWN_SYMBOL_SUFFIXES : endswith(sym, suffix)}
    IN  IF matching = {} THEN None
        ELSE Some(CHOOSE suffix \in matching :
                      \A other \in matching : Len(other) <= Len(suffix))

\* lines 180-189: the loop over single tokens, from (1-based) position i
RECURSIVE single_token_pass(_, _, _)
single_token_pass(cleaned_tokens, kw_tokens, i) ==
    IF i > Len(cleaned_tokens) \/ i > Len(kw_tokens) THEN None
    ELSE IF cleaned_tokens[i] = <<>>
        THEN single_token_pass(cleaned_tokens, kw_tokens, i + 1)
    ELSE IF kw_tokens[i] \in ORDER_KEYWORDS
        THEN single_token_pass(cleaned_tokens, kw_tokens, i + 1)
    ELSE IF ~any_isalpha(cleaned_tokens[i])
        THEN single_token_pass(cleaned_tokens, kw_tokens, i + 1)
    ELSE IF is_valid_candidate(upper(cleaned_tokens[i]))
        THEN Some(upper(cleaned_tokens[i]))
    ELSE single_token_pass(cleaned_tokens, kw_tokens, i + 1)

\* lines 190-206: the loop over adjacent pairs, from (1-based) position idx
RECURSIVE pair_pass(_, _, _)
pair_pass(cleaned_tokens, kw_tokens, idx) ==
    IF idx > Len(cleaned_tokens) - 1 THEN None
    ELSE LET first == cleaned_tokens[idx]
             second == cleaned_tokens[idx + 1]
             first_keyword == kw_tokens[idx]
             second_keyword == kw_tokens[idx + 1]
         IN  IF \/ first = <<>>
                \/ second = <<>>
                \/ first_keyword \in ORDER_KEYWORDS
                \/ second_keyword \in ORDER_KEYWORDS
                 THEN pair_pass(cleaned_tokens, kw_tokens, idx + 1)
             ELSE IF ~any_isalpha(first) \/ ~any_isalpha(second)
                 THEN pair_pass(cleaned_tokens, kw_tokens, idx + 1)
             ELSE IF is_valid_candidate(upper(first \o second))
                 THEN Some(upper(first \o second))
             ELSE pair_pass(cleaned_tokens, kw_tokens, idx + 1)

\* the two passes run in the other order
extract_symbol_PairsFirst(tokens, kw_tokens) ==
    LET cleaned_tokens == [i \in 1..Len(tokens) |-> clean_symbol_token(tokens[i])]
        pair == pair_pass(cleaned_tokens, kw_tokens, 1)
    IN  IF pair # None THEN pair
        ELSE single_token_pass(cleaned_tokens, kw_tokens, 1)

extract_symbol(tokens, kw_tokens) ==
    LET cleaned_tokens == [i \in 1..Len(tokens) |-> clean_symbol_token(tokens[i])]
        single == single_token_pass(cleaned_tokens, kw_tokens, 1)
    IN  IF single # None THEN single
        ELSE pair_pass(cleaned_tokens, kw_tokens, 1)

----------------------------------------------------------------------------
(* Numbers                                                                 *)

\* first position at or after j that holds no digit (Len + 1 if none)
RECURSIVE DigitRunEnd(_, _)
DigitRunEnd(token, j) ==
    IF j > Len(token) \/ ~IsDigit(token[j]) THEN j
    ELSE DigitRunEnd(token, j + 1)

\* the lookahead (?![A-Za-z0-9]) at position k
lookahead(token, k) == k > Len(token) \/ ~IsAsciiAlnum(token[k])

\* the last position of lo..hi where the lookahead holds, 0 if there is none:
\* where a greedy \d+ that may end anywhere in lo..hi ends, after backtracking
RECURSIVE last_match_end(_, _, _)
last_match_end(token, lo, hi) ==
    IF hi < lo THEN 0
    ELSE IF lookahead(token, hi) THEN hi
    ELSE last_match_end(token, lo, hi - 1)

\* NUMBER_PATTERN tried at position i: the position after the match, 0 if the
\* pattern does not match there.
\*   (?<![A-Za-z0-9])[+-]?\d+(?:[.,]\d+)?(?![A-Za-z0-9])
\* The digit runs are greedy and give digits back until the lookahead holds,
\* which it does in the middle of a run before a digit that is not ASCII:
\* first the fraction from its longest to its shortest, then the integer
\* part alone from its longest to its shortest.
NumberMatchEnd(token, i) ==
    LET n == Len(token)
        lookbehind == i = 1 \/ ~IsAsciiAlnum(token[i - 1])
        s == IF token[i] \in {Ord("+"), Ord("-")} THEN i + 1 ELSE i
        e1 == DigitRunEnd(token, s)
        e2 == IF e1 <= n /\ token[e1] \in {Ord("."), Ord(",")}
              THEN DigitRunEnd(token, e1 + 1) ELSE 0
    IN  IF ~lookbehind \/ e1 = s THEN 0
        ELSE IF last_match_end(token, e1 + 2, e2) > 0
            THEN last_match_end(token, e1 + 2, e2)
        ELSE last_match_end(token, s + 1, e1)

\* NUMBER_PATTERN.finditer(token): the matched substrings, left to right
RECURSIVE finditer(_, _)
finditer(token, i) ==
    IF i > Len(token) THEN <<>>
    ELSE LET e == NumberMatchEnd(token, i)
         IN  IF e > 0
             THEN <<SubSeq(token, i, e - 1)>> \o finditer(token, e)
             ELSE finditer(token, i + 1)

\* match.group().replace(",", ".")
replace_comma(s) ==
    [i \in 1..Len(s) |-> IF s[i] = Ord(",") THEN Ord(".") ELSE s[i]]

RECURSIVE lstrip_zeros(_)
lstrip_zeros(digits) ==
    IF Len(digits) > 1 /\ Head(digits) = Ord("0") THEN lstrip_zeros(Tail(digits))
    ELSE digits

\* Decimal(str): sign, coefficient (ASCII digit characters, no leading zero)
\* and exponent of a literal [+-]digits[.digits], whose digits may be any
\* decimal digits
Decimal(str) ==
    LET sign == IF Head(str) = Ord("-") THEN 1 ELSE 0
        body == IF Head(str) \in {Ord("+"), Ord("-")} THEN Tail(str) ELSE str
        dot == IndexOf(body, Ord("."))
        intpart == IF dot = 0 THEN body ELSE SubSeq(body, 1, dot - 1)
        fracpart == IF dot = 0 THEN <<>> ELSE SubSeq(body, dot + 1, Len(body))
    IN  [sign |-> sign,
         int |-> lstrip_zeros(ascii_digits(intpart \o fracpart)),
         exp |-> 0 - Len(fracpart)]

\* Decimal <= 0 and Decimal > 0
IsZero(d) == d.int = Str("0")
\* the comparison written "< 0"
LeZero_StrictlyNegative(d) == d.sign = 1
\* the comparison written "== 0"
LeZero_ZeroOnly(d) == IsZero(d)
LeZero(d) == IsZero(d) \/ d.sign = 1
GtZero(d) == ~LeZero(d)

\* extract_numbers_with_indices: (0-based token index, Decimal) pairs
RECURSIVE extract_numbers_with_indices(_, _)
extract_numbers_with_indices(tokens, k) ==
    IF k > Len(tokens) THEN <<>>
    ELSE LET found == finditer(tokens[k], 1)
         IN  [m \in 1..Len(found) |->
                 [index |-> k - 1, value |-> Decimal(replace_comma(found[m]))]]
             \o extract_numbers_with_indices(tokens, k + 1)

----------------------------------------------------------------------------
(* decimal_to_str                                                          *)

\* the default decimal context, which normalize() applies: significant
\* digits and exponent range
PREC == 28
EMAX == 999999
EMIN == 0 - 999999
\* Context.Etiny() and Context.Etop()
Etiny == EMIN - PREC + 1
Etop == EMAX - PREC + 1

\* the decimal.Overflow that the context raises (the Overflow trap is set)
Overflow == [raised |-> "decimal.Overflow"]
overflows(d) == d = Overflow

Zeros(n) == [i \in 1..n |-> Ord("0")]

\* coefficient + 1, digit by digit from the right
RECURSIVE increment(_)
increment(digits) ==
    IF digits = <<>> THEN Str("1")
    ELSE LET last == digits[Len(digits)]
             init == SubSeq(digits, 1, Len(digits) - 1)
         IN  IF last = Ord("9") THEN increment(init) \o Str("0")
             ELSE init \o <<DIGITS[DigitVal(last) + 2]>>

\* ROUND_HALF_EVEN on a coefficient cut after its first n digits: the rest
\* is above one half, or exactly one half after an odd digit
rounds_up(kept, rest, n) ==
    \/ DigitVal(rest[1]) > 5
    \/ /\ DigitVal(rest[1]) = 5
       /\ \/ \E i \in 2..Len(rest) : rest[i] # Ord("0")
          \/ n > 0 /\ DigitVal(kept[n]) % 2 = 1

\* the coefficient rounded to its first n digits: "0" when nothing is kept
\* and the rest rounds down
round_half_even(coefficient, n) ==
    IF rounds_up(SubSeq(coefficient, 1, n),
                 SubSeq(coefficient, n + 1, Len(coefficient)), n)
    THEN increment(IF n = 0 THEN Str("0") ELSE SubSeq(coefficient, 1, n))
    ELSE IF n = 0 THEN Str("0") ELSE SubSeq(coefficient, 1, n)

\* Decimal._fix once the coefficient is rounded at the exponent exp_min: a
\* carry into one more digit than PREC moves the exponent up
fix_rounded(d, exp_min, coeff) ==
    IF Len(coeff) > PREC
    THEN IF exp_min + 1 > Etop THEN Overflow
         ELSE [sign |-> d.sign, int |-> SubSeq(coeff, 1, Len(coeff) - 1),
               exp |-> exp_min + 1]
    ELSE [sign |-> d.sign, int |-> coeff, exp |-> exp_min]

\* Decimal._fix of a value that is not zero, exp_min being the lowest
\* exponent that PREC digits and Etiny allow
fix_at(d, exp_min) ==
    IF d.exp >= exp_min THEN d
    ELSE fix_rounded(d, exp_min,
                     IF Len(d.int) + d.exp - exp_min < 0 THEN Str("0")
                     ELSE round_half_even(d.int,
                                          Len(d.int) + d.exp - exp_min))

\* Decimal._fix: a zero has its exponent brought into [Etiny, Emax]; a
\* value whose adjusted exponent is above Emax raises Overflow; a
\* coefficient longer than PREC digits, or reaching below Etiny, is rounded
\* (the Underflow, Subnormal, Inexact and Rounded signals are not trapped)
fix(d) ==
    IF IsZero(d)
    THEN [sign |-> d.sign, int |-> Str("0"),
          exp |-> IF d.exp < Etiny THEN Etiny
                  ELSE IF d.exp > EMAX THEN EMAX ELSE d.exp]
    ELSE IF Len(d.int) + d.exp - PREC > Etop THEN Overflow
    ELSE fix_at(d, IF Len(d.int) + d.exp - PREC < Etiny THEN Etiny
                   ELSE Len(d.int) + d.exp - PREC)

\* the loop of normalize(): trailing zeros go into the exponent, up to Emax
RECURSIVE strip_trailing_zeros(_)
strip_trailing_zeros(d) ==
    IF Len(d.int) > 1 /\ d.int[Len(d.int)] = Ord("0") /\ d.exp < EMAX
    THEN strip_trailing_zeros([sign |-> d.sign,
                               int |-> SubSeq(d.int, 1, Len(d.int) - 1),
                               exp |-> d.exp + 1])
    ELSE d

\* Decimal.normalize() after _fix
normalized(dup) ==
    IF overflows(dup) THEN Overflow
    ELSE IF IsZero(dup) THEN [sign |-> dup.sign, int |-> Str("0"), exp |-> 0]
    ELSE strip_trailing_zeros(dup)

\* Decimal.normalize()
normalize(d) == normalized(fix(d))

\* format(d, "f")
format_f(d) ==
    LET dotplace == Len(d.int) + d.exp
        unsigned ==
            IF d.exp >= 0 THEN d.int \o Zeros(d.exp)
            ELSE IF dotplace <= 0
                THEN Str("0.") \o Zeros(0 - dotplace) \o d.int
            ELSE SubSeq(d.int, 1, dotplace) \o Str(".")
                     \o SubSeq(d.int, dotplace + 1, Len(d.int))
    IN  IF d.sign = 1 THEN Str("-") \o unsigned ELSE unsigned

\* str.rstrip(chars) for a single character
RECURSIVE rstrip(_, _)
rstrip(s, c) ==
    IF s # <<>> /\ s[Len(s)] = c THEN rstrip(SubSeq(s, 1, Len(s) - 1), c)
    ELSE s

\* lines 150-152: zeros and the point are cut from the end of a string
\* that has a point, and an empty string becomes "0"
strip_fraction(as_str) ==
    IF IndexOf(as_str, Ord(".")) > 0
    THEN IF rstrip(rstrip(as_str, Ord("0")), Ord(".")) = <<>> THEN Str("0")
         ELSE rstrip(rstrip(as_str, Ord("0")), Ord("."))
    ELSE IF as_str = <<>> THEN Str("0") ELSE as_str

\* lines 149-152 on the normalized value
quantized_to_str(quantized) ==
    IF overflows(quantized) THEN Overflow
    ELSE strip_fraction(format_f(quantized))

\* decimal_to_str (lines 147-152): the string, or Overflow when
\* value.normalize() raises it
decimal_to_str(value) == quantized_to_str(normalize(value))

----------------------------------------------------------------------------
(* parse_trade_command                                                     *)

\* The messages of the CommandParsingError raised at each check, written
\* without their diacritics.
ERR_SIDE == "Impossible de determiner si l'ordre est un achat ou une vente."
ERR_SYMBOL == "Impossible de determiner le symbole a trader."
ERR_QUANTITY_MISSING == "Impossible de determiner la quantite a trader."
ERR_QUANTITY == "La quantite doit etre superieure a zero."
ERR_PRICE_MISSING == "Une commande limite necessite un prix."
ERR_PRICE == "Le prix doit etre superieur a zero."
ERR_CALLBACK == "Le callback doit etre superieur a zero."
ERR_ACTIVATION == "Le prix d'activation doit etre superieur a zero."

\* the inner loop without the test "token_index in used_number_indices"
RECURSIVE first_free_number_IgnoresUsed(_, _, _, _)
first_free_number_IgnoresUsed(numbers, used, idx, p) ==
    IF p > Len(numbers) THEN 0
    ELSE IF numbers[p].index >= idx THEN p
    ELSE first_free_number_IgnoresUsed(numbers, used, idx, p + 1)

\* the inner loop without the test "token_index >= idx"
RECURSIVE first_free_number_IgnoresMarker(_, _, _, _)
first_free_number_IgnoresMarker(numbers, used, idx, p) ==
    IF p > Len(numbers) THEN 0
    ELSE IF numbers[p].index \in used
        THEN first_free_number_IgnoresMarker(numbers, used, idx, p + 1)
    ELSE p

\* inner loop of find_number_after_keywords (lines 251-256): the (1-based)
\* place in the number list of the first entry, from place p on, whose token
\* index is not used and is >= idx; 0 when the loop ends without returning
RECURSIVE first_free_number(_, _, _, _)
first_free_number(numbers, used, idx, p) ==
    IF p > Len(numbers) THEN 0
    ELSE IF numbers[p].index \in used
        THEN first_free_number(numbers, used, idx, p + 1)
    ELSE IF numbers[p].index >= idx THEN p
    ELSE first_free_number(numbers, used, idx, p + 1)

\* find_number_after_keywords (lines 247-257), outer loop from the (1-based)
\* keyword position i; idx of the code is i - 1.  Returns the place of the
\* returned entry in the number list, 0 for None.
RECURSIVE find_number_after_keywords(_, _, _, _, _)
find_number_after_keywords(keywords, kw_tokens, numbers, used, i) ==
    IF i > Len(kw_tokens) THEN 0
    ELSE IF kw_tokens[i] \notin keywords
        THEN find_number_after_keywords(keywords, kw_tokens, numbers, used, i + 1)
    ELSE LET p == first_free_number(numbers, used, i - 1, 1)
         IN  IF p > 0 THEN p
             ELSE find_number_after_keywords(keywords, kw_tokens, numbers, used, i + 1)

Raise(message) ==
    /\ error' = Some(message)
    /\ pc' = "raised"

\* lines 211-216
ParseSide ==
    /\ pc = "side"
    /\ LET tokens == split(command)
           kw == [i \in 1..Len(tokens) |-> normalize_keyword(tokens[i])]
           found == FirstInDict(kw, SIDE_KEYWORDS, 1)
       IN  /\ raw_tokens' = tokens
           /\ keyword_tokens' = kw
           /\ side' = found
           /\ IF found = None THEN Raise(ERR_SIDE)
              ELSE pc' = "order_type" /\ error' = error
    /\ UNCHANGED http_vars
    /\ UNCHANGED <<command, order_type, symbol, numbers_with_indices, quantity,
                   price, used_number_indices, callback_value, activation_value,
                   callback_pos, activation_pos, result>>

\* lines 218-221
ParseOrderType ==
    /\ pc = "order_type"
    /\ LET found == FirstInDict(keyword_tokens, ORDER_TYPE_KEYWORDS, 1)
       IN  order_type' = IF found = None THEN "MARKET" ELSE found[1]
    /\ pc' = "symbol"
    /\ UNCHANGED http_vars
    /\ UNCHANGED <<command, raw_tokens, keyword_tokens, side, symbol,
                   numbers_with_indices, quantity, price, used_number_indices,
                   callback_value, activation_value, callback_pos,
                   activation_pos, result, error>>

\* lines 223-225
ParseSymbol ==
    /\ pc = "symbol"
    /\ symbol' = extract_symbol(raw_tokens, keyword_tokens)
    /\ IF symbol' = None THEN Raise(ERR_SYMBOL)
       ELSE pc' = "numbers" /\ error' = error
    /\ UNCHANGED http_vars
    /\ UNCHANGED <<command, raw_tokens, keyword_tokens, side, order_type,
                   numbers_with_indices, quantity, price, used_number_indices,
                   callback_value, activation_value, callback_pos,
                   activation_pos, result>>

\* lines 227-229
ParseNumbers ==
    /\ pc = "numbers"
    /\ numbers_with_indices' = extract_numbers_with_indices(raw_tokens, 1)
    /\ IF numbers_with_indices' = <<>> THEN Raise(ERR_QUANTITY_MISSING)
       ELSE pc' = "quantity" /\ error' = error
    /\ UNCHANGED http_vars
    /\ UNCHANGED <<command, raw_tokens, keyword_tokens, side, order_type,
                   symbol, quantity, price, used_number_indices, callback_value,
                   activation_value, callback_pos, activation_pos, result>>

\* lines 231-235
ParseQuantity ==
    /\ pc = "quantity"
    /\ quantity' = Some(numbers_with_indices[1].value)
    /\ IF LeZero(numbers_with_indices[1].value)
       THEN Raise(ERR_QUANTITY) /\ UNCHANGED used_number_indices
       ELSE /\ used_number_indices' = {numbers_with_indices[1].index}
            /\ pc' = "price"
            /\ error' = error
    /\ UNCHANGED http_vars
    /\ UNCHANGED <<command, raw_tokens, keyword_tokens, side, order_type,
                   symbol, numbers_with_indices, price, callback_value,
                   activation_value, callback_pos, activation_pos, result>>

\* lines 237-245
ParsePrice ==
    /\ pc = "price"
    /\ IF order_type = "LIMIT"
       THEN IF Len(numbers_with_indices) < 2
            THEN Raise(ERR_PRICE_MISSING)
                 /\ UNCHANGED <<price, used_number_indices>>
            ELSE /\ price' = Some(numbers_with_indices[2].value)
                 /\ IF LeZero(numbers_with_indices[2].value)
                    THEN Raise(ERR_PRICE) /\ UNCHANGED used_number_indices
                    ELSE /\ used_number_indices' =
                                used_number_indices
                                    \cup {numbers_with_indices[2].index}
                         /\ pc' = "callback"
                         /\ error' = error
       ELSE /\ pc' = "callback"
            /\ UNCHANGED <<price, used_number_indices, error>>
    /\ UNCHANGED http_vars
    /\ UNCHANGED <<command, raw_tokens, keyword_tokens, side, order_type,
                   symbol, numbers_with_indices, quantity, callback_value,
                   activation_value, callback_pos, activation_pos, result>>

\* lines 259-261
ParseCallback ==
    /\ pc = "callback"
    /\ LET p == find_number_after_keywords(CALLBACK_RATE_KEYWORDS,
                    keyword_tokens, numbers_with_indices,
                    used_number_indices, 1)
       IN  /\ callback_pos' = p
           /\ IF p = 0
              THEN /\ callback_value' = None
                   /\ UNCHANGED used_number_indices
                   /\ pc' = "activation"
                   /\ error' = error
              ELSE /\ callback_value' = Some(numbers_with_indices[p].value)
                   /\ used_number_indices' =
                          used_number_indices \cup {numbers_with_indices[p].index}
                   /\ IF LeZero(numbers_with_indices[p].value)
                      THEN Raise(ERR_CALLBACK)
                      ELSE pc' = "activation" /\ error' = error
    /\ UNCHANGED http_vars
    /\ UNCHANGED <<command, raw_tokens, keyword_tokens, side, order_type,
                   symbol, numbers_with_indices, quantity, price,
                   activation_value, activation_pos, result>>

\* lines 263-265
ParseActivation ==
    /\ pc = "activation"
    /\ LET p == find_number_after_keywords(ACTIVATION_PRICE_KEYWORDS,
                    keyword_tokens, numbers_with_indices,
                    used_number_indices, 1)
       IN  /\ activation_pos' = p
           /\ IF p = 0
              THEN /\ activation_value' = None
                   /\ UNCHANGED used_number_indices
                   /\ pc' = "return"
                   /\ error' = error
              ELSE /\ activation_value' = Some(numbers_with_indices[p].value)
                   /\ used_number_indices' =
                          used_number_indices \cup {numbers_with_indices[p].index}
                   /\ IF LeZero(numbers_with_indices[p].value)
                      THEN Raise(ERR_ACTIVATION)
                      ELSE pc' = "return" /\ error' = error
    /\ UNCHANGED http_vars
    /\ UNCHANGED <<command, raw_tokens, keyword_tokens, side, order_type,
                   symbol, numbers_with_indices, quantity, price,
                   callback_value, callback_pos, result>>

\* Optional[Decimal] -> Optional[str]
OptionalStr(value) ==
    IF value = None THEN None ELSE Some(decimal_to_str(value[1]))

\* the ParsedOrder built at lines 274-285 (model_dump gives the same fields)
ParsedOrder(sd, sym, otype, qty, pr, cb, act) ==
    LET quote_asset == detect_quote_asset(sym)
    IN  [side |-> sd,
         symbol |-> sym,
         order_type |-> otype,
         quantity |-> decimal_to_str(qty),
         price |-> OptionalStr(pr),
         time_in_force |-> IF otype = "LIMIT" THEN Some("GTC") ELSE None,
         quote_asset |-> quote_asset,
         quote |-> quote_asset,
         callback |-> OptionalStr(cb),
         activation_price |-> OptionalStr(act)]

\* a decimal_to_str of lines 267-278 raises decimal.Overflow
OptionalOverflows(value) ==
    value # None /\ overflows(normalize(value[1]))

\* lines 267-285: the order is returned, unless a decimal_to_str raises
\* decimal.Overflow, which leaves parse_trade_command as it is (it is not a
\* CommandParsingError)
Return ==
    /\ pc = "return"
    /\ IF \/ OptionalOverflows(callback_value)
          \/ OptionalOverflows(activation_value)
          \/ OptionalOverflows(quantity)
          \/ OptionalOverflows(price)
       THEN /\ error' = Some(Overflow.raised)
            /\ pc' = "crashed"
            /\ UNCHANGED result
       ELSE /\ result' = Some(ParsedOrder(side[1], symbol[1], order_type,
                                          quantity[1], price, callback_value,
                                          activation_value))
            /\ pc' = "done"
            /\ UNCHANGED error
    /\ UNCHANGED http_vars
    /\ UNCHANGED <<command, raw_tokens, keyword_tokens, side, order_type,
                   symbol, numbers_with_indices, quantity, price,
                   used_number_indices, callback_value, activation_value,
                   callback_pos, activation_pos>>

Next ==
    \/ ParseSide
    \/ ParseOrderType
    \/ ParseSymbol
    \/ ParseNumbers
    \/ ParseQuantity
    \/ ParsePrice
    \/ ParseCallback
    \/ ParseActivation
    \/ Return

----------------------------------------------------------------------------
(* Commands                                                                *)

\* " ".join(tokens)
RECURSIVE join(_)
join(tokens) ==
    IF tokens = <<>> THEN <<>>
    ELSE IF Len(tokens) = 1 THEN tokens[1]
    ELSE tokens[1] \o Str(" ") \o join(Tail(tokens))

SeqsUpTo(pool, n) == UNION {[1..k -> pool] : k \in 0..n}

\* the commands that start with one of the given token sequences and go on
\* with at most n tokens of the pool
CommandsFrom(prefixes, pool, n) ==
    {join(p \o ts) : p \in prefixes, ts \in SeqsUpTo(pool, n)}

\* the state at the call: the command is bound, every local is unset
CallWith(commands) ==
    /\ command \in commands
    /\ pc = "side"
    /\ raw_tokens = <<>>
    /\ keyword_tokens = <<>>
    /\ side = None
    /\ order_type = "MARKET"
    /\ symbol = None
    /\ numbers_with_indices = <<>>
    /\ quantity = None
    /\ price = None
    /\ used_number_indices = {}
    /\ callback_value = None
    /\ activation_value = None
    /\ callback_pos = 0
    /\ activation_pos = 0
    /\ result = None
    /\ error = None
    /\ testnet = TRUE
    /\ parsed = None
    /\ client = None
    /\ order_payload = None
    /\ calls = <<>>
    /\ outcome = None
    /\ response = None

\* Orders: market, limit and trailing commands on one symbol, with a comma
\* decimal, a literal of 29 significant digits and the fullwidth digit two
\* (65298) among the numbers
MaxTokens == 3
OrderPrefixes == { <<>>, <<Str("achetez"), Str("btcusdt")>> }
OrderPool ==
    { Str("2"), Str("0,50"), Str("12345678901234567890123456789"),
      <<65298>>,
      Str("limit"), Str("trailing"), Str("callback"), Str("activation") }

Init == CallWith(CommandsFrom(OrderPrefixes, OrderPool, MaxTokens))
Spec == Init /\ [][Next]_vars

\* Errors: every combination of a missing side, symbol or number with
\* non-positive quantities, prices, callbacks and activation prices
MaxErrTokens == 4
ErrPrefixes ==
    { <<>>, <<Str("acheter")>>, <<Str("btcusdt")>>,
      <<Str("acheter"), Str("btcusdt")>>,
      <<Str("acheter"), Str("btcusdt"), Str("2")>>,
      <<Str("acheter"), Str("btcusdt"), Str("limit")>> }
ErrPool == { Str("2"), Str("0"), Str("-1"), Str("callback"), Str("trigger") }

InitErrors == CallWith(CommandsFrom(ErrPrefixes, ErrPool, MaxErrTokens))
SpecErrors == InitErrors /\ [][Next]_vars

\* Symbols: one-token and two-token symbols, separators, keywords that would
\* form a symbol with their neighbour, tokens without a known suffix, a
\* tab (9) between two tokens, the ligature fi (64257) that decomposes into
\* two letters
MaxSymTokens == 4
SymPool ==
    { Str("vend"), Str("1"), Str("eth"),
      Str("usdt"), Str("btc/usdt"),
      Str("FDUSD"), Str("op"), <<>>,
      Str("sol") \o <<9>> \o Str("btc"), <<64257>> \o Str("l") }

InitSymbols == CallWith(CommandsFrom({<<>>}, SymPool, MaxSymTokens))
SpecSymbols == InitSymbols /\ [][Next]_vars

\* Attributes: callback and activation markers before, between and after the
\* numbers, with a token that holds two numbers
MaxAttrTokens == 5
AttrPrefixes == { <<Str("buy"), Str("btcusdt")>>, <<Str("buy"), Str("btcusdt"), Str("limit")>> }
AttrPool == { Str("1"), Str("5/6"), Str("callback"), Str("trigger") }

InitAttrs == CallWith(CommandsFrom(AttrPrefixes, AttrPool, MaxAttrTokens))
SpecAttrs == InitAttrs /\ [][Next]_vars
----------------------------------------------------------------------------
(* Properties                                                              *)

\* The command as the properties read it: its tokens, their keyword forms
\* and its numbers, taken from the command text of the call.
CmdTokens == split(command)
CmdKeywords == [i \in 1..Len(CmdTokens) |-> normalize_keyword(CmdTokens[i])]
CmdNumbers == extract_numbers_with_indices(CmdTokens, 1)
HasKeywordIn(keywords) ==
    \E i \in 1..Len(CmdKeywords) : CmdKeywords[i] \in keywords

\* the value of a Decimal, compared without going through the parser's
\* own comparisons: negative or zero, and equality up to trailing zeros
ValueIsZero(d) == \A i \in 1..Len(d.int) : d.int[i] = Ord("0")
ValueLeZero(d) == d.sign = 1 \/ ValueIsZero(d)
ValueGtZero(d) == d.sign = 0 /\ ~ValueIsZero(d)
RECURSIVE Canonical(_)
Canonical(d) ==
    IF ValueIsZero(d) THEN <<0, Str("0"), 0>>
    ELSE IF d.int[Len(d.int)] = Ord("0")
        THEN Canonical([sign |-> d.sign,
                        int |-> SubSeq(d.int, 1, Len(d.int) - 1),
                        exp |-> d.exp + 1])
    ELSE <<d.sign, d.int, d.exp>>
SameValue(d1, d2) == Canonical(d1) = Canonical(d2)

Returned == pc = "done"
Finished == pc \in {"done", "raised"}

\* the trailing-order keywords of the specification and of the tests
TRAILING_KEYWORDS == { Str("trailing"), Str("suiveur") }

\* C1: a command that parses and holds a trailing-order keyword yields
\* order_type TRAILING_STOP_MARKET and no time_in_force, whatever other
\* order-type keyword it holds.
C1_TrailingOverridesOrderType ==
    (Returned /\ HasKeywordIn(TRAILING_KEYWORDS)) =>
        /\ result[1].order_type = "TRAILING_STOP_MARKET"
        /\ result[1].time_in_force = None

\* C2: a command with a side keyword, a symbol, a positive quantity and a
\* trailing-order keyword, but no number left to be the callback rate, fails
\* with a CommandParsingError and returns no order.
C2_TrailingRequiresCallback ==
    ( /\ Finished
      /\ HasKeywordIn(DOMAIN SIDE_KEYWORDS)
      /\ extract_symbol(CmdTokens, CmdKeywords) # None
      /\ Len(CmdNumbers) = 1
      /\ ValueGtZero(CmdNumbers[1].value)
      /\ HasKeywordIn(TRAILING_KEYWORDS) ) =>
        /\ pc = "raised"
        /\ error # None
        /\ result = None

\* C4: in a returned order the price is present exactly when the order type
\* is LIMIT, is then strictly positive and equal to the second number of the
\* command, and time_in_force is "GTC" exactly when the order type is LIMIT
\* and absent otherwise.
C4_PriceIffLimit ==
    Returned =>
        /\ result[1].price # None <=> result[1].order_type = "LIMIT"
        /\ result[1].price # None =>
              /\ ValueGtZero(Decimal(result[1].price[1]))
              /\ Len(CmdNumbers) >= 2
              /\ SameValue(Decimal(result[1].price[1]), CmdNumbers[2].value)
        /\ result[1].time_in_force = Some("GTC")
              <=> result[1].order_type = "LIMIT"
        /\ result[1].order_type # "LIMIT" => result[1].time_in_force = None

\* C10: for a returned order whose command holds no order-type, trailing,
\* callback or activation keyword, the dumped record has side, symbol,
\* order_type = MARKET, quantity and quote_asset set and every other field
\* None.
C10_OnlyFiveFieldsSet ==
    ( /\ Returned
      /\ ~HasKeywordIn(DOMAIN ORDER_TYPE_KEYWORDS)
      /\ ~HasKeywordIn(TRAILING_KEYWORDS)
      /\ ~HasKeywordIn(CALLBACK_RATE_KEYWORDS)
      /\ ~HasKeywordIn(ACTIVATION_PRICE_KEYWORDS) ) =>
        /\ result[1].quote_asset # None
        /\ result[1] =
              [side |-> side[1],
               symbol |-> symbol[1],
               order_type |-> "MARKET",
               quantity |-> result[1].quantity,
               price |-> None,
               time_in_force |-> None,
               quote_asset |-> result[1].quote_asset,
               quote |-> None,
               callback |-> None,
               activation_price |-> None]
\* What a command lacks, read off the command text.
SetMin(S) == CHOOSE x \in S : \A y \in S : x <= y
CmdOrderType ==
    LET hits == {i \in 1..Len(CmdKeywords) :
                     CmdKeywords[i] \in DOMAIN ORDER_TYPE_KEYWORDS}
    IN  IF hits = {} THEN "MARKET"
        ELSE ORDER_TYPE_KEYWORDS[CmdKeywords[SetMin(hits)]]
NoSide == ~HasKeywordIn(DOMAIN SIDE_KEYWORDS)
NoSymbol == extract_symbol(CmdTokens, CmdKeywords) = None
NoNumber == CmdNumbers = <<>>
QuantityNotPositive == ~NoNumber /\ ValueLeZero(CmdNumbers[1].value)
PriceMissing == CmdOrderType = "LIMIT" /\ Len(CmdNumbers) < 2
PriceNotPositive ==
    /\ CmdOrderType = "LIMIT"
    /\ Len(CmdNumbers) >= 2
    /\ ValueLeZero(CmdNumbers[2].value)

\* The places (in the number list) that quantity and price take, and the
\* place an optional attribute is to take: at the first marker token of the
\* attribute that has a free number at or after it, the first such number.
\* A number is free when no number of its token is taken.
PlacesOfQuantityAndPrice ==
    IF CmdOrderType = "LIMIT" /\ Len(CmdNumbers) >= 2 THEN {1, 2} ELSE {1}
TokensOf(numbers, places) == {numbers[p].index : p \in places}
FreeAfter(numbers, marker, taken) ==
    {p \in 1..Len(numbers) :
        numbers[p].index \notin taken /\ numbers[p].index >= marker - 1}
ExpectedPlaceIn(kws, numbers, keywords, taken) ==
    LET markers == {m \in 1..Len(kws) :
                        kws[m] \in keywords /\ FreeAfter(numbers, m, taken) # {}}
    IN  IF markers = {} THEN 0
        ELSE SetMin(FreeAfter(numbers, SetMin(markers), taken))
ExpectedPlace(keywords, places) ==
    LET kws == CmdKeywords
        numbers == CmdNumbers
        taken == TokensOf(numbers, places)
    IN  ExpectedPlaceIn(kws, numbers, keywords, taken)
ExpectedCallbackPlace ==
    ExpectedPlace(CALLBACK_RATE_KEYWORDS, PlacesOfQuantityAndPrice)
ExpectedActivationPlace ==
    LET cb == ExpectedCallbackPlace
    IN  ExpectedPlace(ACTIVATION_PRICE_KEYWORDS,
                      PlacesOfQuantityAndPrice \cup ({cb} \ {0}))
CallbackNotPositive ==
    LET place == ExpectedCallbackPlace
    IN  ~NoNumber /\ place # 0 /\ ValueLeZero(CmdNumbers[place].value)
ActivationNotPositive ==
    LET place == ExpectedActivationPlace
    IN  ~NoNumber /\ place # 0 /\ ValueLeZero(CmdNumbers[place].value)

\* the message of the first failing check, in the order side, symbol,
\* quantity presence, quantity positivity, price presence, price positivity,
\* callback positivity, activation positivity
FirstDefect ==
    IF NoSide THEN Some(ERR_SIDE)
    ELSE IF NoSymbol THEN Some(ERR_SYMBOL)
    ELSE IF NoNumber THEN Some(ERR_QUANTITY_MISSING)
    ELSE IF QuantityNotPositive THEN Some(ERR_QUANTITY)
    ELSE IF PriceMissing THEN Some(ERR_PRICE_MISSING)
    ELSE IF PriceNotPositive THEN Some(ERR_PRICE)
    ELSE IF CallbackNotPositive THEN Some(ERR_CALLBACK)
    ELSE IF ActivationNotPositive THEN Some(ERR_ACTIVATION)
    ELSE None

\* C3: a command with no side keyword, no symbol, no number, a quantity
\* <= 0, a LIMIT order with fewer than two numbers or a LIMIT price <= 0
\* raises CommandParsingError and returns no order; and a command with
\* several defects raises the error of the first check in the fixed order.
C3_FirstDefectIsRaised ==
    Finished =>
        /\ ( \/ NoSide \/ NoSymbol \/ NoNumber \/ QuantityNotPositive
             \/ PriceMissing \/ PriceNotPositive ) =>
                pc = "raised" /\ error # None /\ result = None
        /\ FirstDefect # None =>
                pc = "raised" /\ error = FirstDefect /\ result = None

\* a LIMIT command whose only number is not positive: two defects, and the
\* error raised is the quantity's
C3_Witness ==
    /\ pc = "raised"
    /\ ~NoSide /\ ~NoSymbol
    /\ QuantityNotPositive
    /\ PriceMissing
    /\ error = Some(ERR_QUANTITY)

\* C7: when the value assigned to callback, or to activation_price, is <= 0
\* the call fails with the error that names that field; so a returned order
\* has callback and activation_price absent or strictly positive.
C7_NonPositiveAttributeFails ==
    /\ (callback_value # None /\ ValueLeZero(callback_value[1])) =>
            pc = "raised" /\ error = Some(ERR_CALLBACK) /\ result = None
    /\ (activation_value # None /\ ValueLeZero(activation_value[1])) =>
            pc = "raised" /\ error = Some(ERR_ACTIVATION) /\ result = None
    /\ Returned =>
            /\ result[1].callback # None =>
                    ValueGtZero(Decimal(result[1].callback[1]))
            /\ result[1].activation_price # None =>
                    ValueGtZero(Decimal(result[1].activation_price[1]))

\* a positive callback was assigned, then an activation price <= 0, and the
\* error names the activation price
C7_Witness ==
    /\ pc = "raised"
    /\ callback_value # None
    /\ ValueGtZero(callback_value[1])
    /\ activation_value # None
    /\ ValueLeZero(activation_value[1])
    /\ error = Some(ERR_ACTIVATION)
\* which steps of the call have run
SymbolExtracted ==
    \/ pc \in {"numbers", "quantity", "price", "callback", "activation",
               "return", "done"}
    \/ pc = "raised" /\ error # Some(ERR_SIDE)
CallbackSearched ==
    \/ pc \in {"activation", "return", "done"}
    \/ pc = "raised" /\ error \in {Some(ERR_CALLBACK), Some(ERR_ACTIVATION)}
ActivationSearched ==
    \/ pc \in {"return", "done"}
    \/ pc = "raised" /\ error = Some(ERR_ACTIVATION)

\* the place in the number list of the number each field was given (0: none)
AssignedPlaces ==
    <<IF quantity # None THEN 1 ELSE 0,
      IF price # None THEN 2 ELSE 0,
      callback_pos,
      activation_pos>>

\* C5: within one call no number is assigned to two fields: the numbers
\* taken for quantity, price, callback and activation_price are pairwise
\* distinct occurrences of the number list.
C5_NoNumberAssignedTwice ==
    /\ \A i, j \in 1..4 :
          (i # j /\ AssignedPlaces[i] # 0) =>
              AssignedPlaces[i] # AssignedPlaces[j]
    /\ callback_pos # 0 =>
          callback_value = Some(CmdNumbers[callback_pos].value)
    /\ activation_pos # 0 =>
          activation_value = Some(CmdNumbers[activation_pos].value)

\* a returned order with a callback and an activation price, from a command
\* in which one token holds two numbers and both markers stand before the
\* number the callback took
C5_Witness ==
    /\ Returned
    /\ callback_pos # 0
    /\ activation_pos # 0
    /\ \E p \in 1..(Len(CmdNumbers) - 1) :
          CmdNumbers[p].index = CmdNumbers[p + 1].index
    /\ \E m \in 1..Len(CmdKeywords) :
          /\ CmdKeywords[m] \in ACTIVATION_PRICE_KEYWORDS
          /\ m - 1 < CmdNumbers[callback_pos].index
          /\ \A p \in 1..Len(CmdNumbers) :
                (CmdNumbers[p].index >= m - 1 /\ p \notin {1, callback_pos})
                    => p > callback_pos

\* C6 as stated: the attribute is given the first number that no field has
\* taken and whose token is at or after the first marker that has one.
FreeNumberAfter(numbers, marker, places) ==
    {p \in 1..Len(numbers) :
        p \notin places /\ numbers[p].index >= marker - 1}
ExpectedNumberPlace(keywords, places) ==
    LET kws == CmdKeywords
        numbers == CmdNumbers
        markers == {m \in 1..Len(kws) :
                        /\ kws[m] \in keywords
                        /\ FreeNumberAfter(numbers, m, places) # {}}
    IN  IF markers = {} THEN 0
        ELSE SetMin(FreeNumberAfter(numbers, SetMin(markers), places))
C6_FirstUnclaimedNumber ==
    /\ CallbackSearched =>
          callback_pos =
              ExpectedNumberPlace(CALLBACK_RATE_KEYWORDS,
                                  PlacesOfQuantityAndPrice)
    /\ ActivationSearched =>
          activation_pos =
              ExpectedNumberPlace(ACTIVATION_PRICE_KEYWORDS,
                  PlacesOfQuantityAndPrice \cup ({callback_pos} \ {0}))

\* C6 (amended): for each optional attribute, at the first marker token of
\* the attribute that has one, the parser assigns the first number at or
\* after the marker whose token holds no number already taken by quantity,
\* price or the other attribute; with no marker, or no such number, the
\* attribute is absent and the parser does not fail for it.  A number before
\* every marker of an attribute is never assigned to it.
BeforeEveryMarker(place, keywords) ==
    \A m \in 1..Len(CmdKeywords) :
        CmdKeywords[m] \in keywords => CmdNumbers[place].index < m - 1
C6_FirstNumberOfFreeToken ==
    /\ CallbackSearched =>
          /\ callback_pos = ExpectedCallbackPlace
          /\ callback_value =
                IF callback_pos = 0 THEN None
                ELSE Some(CmdNumbers[callback_pos].value)
          /\ callback_pos = 0 => error # Some(ERR_CALLBACK)
          /\ callback_pos # 0 =>
                ~BeforeEveryMarker(callback_pos, CALLBACK_RATE_KEYWORDS)
    /\ ActivationSearched =>
          /\ activation_pos = ExpectedActivationPlace
          /\ activation_value =
                IF activation_pos = 0 THEN None
                ELSE Some(CmdNumbers[activation_pos].value)
          /\ activation_pos = 0 => pc # "raised"
          /\ activation_pos # 0 =>
                ~BeforeEveryMarker(activation_pos, ACTIVATION_PRICE_KEYWORDS)

\* a returned order whose callback is a number after the callback marker,
\* while an earlier free number stands before every callback marker, and
\* whose activation price is absent although the command has a marker for it
C6_Witness ==
    /\ Returned
    /\ callback_pos > 2
    /\ price = None
    /\ BeforeEveryMarker(2, CALLBACK_RATE_KEYWORDS)
    /\ CmdNumbers[2].index # CmdNumbers[1].index
    /\ HasKeywordIn(ACTIVATION_PRICE_KEYWORDS)
    /\ activation_pos = 0

\* C8: the symbol is the first single token that, cleaned and uppercased,
\* holds a letter, is no keyword, has length >= 5 and ends with a known
\* suffix; failing that, the first adjacent pair of non-empty, lettered,
\* non-keyword tokens whose concatenation passes the same test; else none.
\* No keyword token gives characters to the symbol.
HasSuffix(s, suffix) ==
    /\ Len(suffix) <= Len(s)
    /\ \A i \in 1..Len(suffix) : s[Len(s) - Len(suffix) + i] = suffix[i]
HasLetter(s) ==
    \E i \in 1..Len(s) : IsAsciiLower(s[i]) \/ IsAsciiUpper(s[i])
Qualifies(candidate) ==
    /\ Len(candidate) >= 5
    /\ \E suffix \in KNOWN_SYMBOL_SUFFIXES : HasSuffix(candidate, suffix)
ExpectedSymbolOf(tokens, kws) ==
    LET cleaned == [i \in 1..Len(tokens) |-> clean_symbol_token(tokens[i])]
        usable(i) == HasLetter(cleaned[i]) /\ kws[i] \notin ORDER_KEYWORDS
        singles == {i \in 1..Len(tokens) :
                        usable(i) /\ Qualifies(upper(cleaned[i]))}
        pairs == {i \in 1..(Len(tokens) - 1) :
                        /\ usable(i)
                        /\ usable(i + 1)
                        /\ Qualifies(upper(cleaned[i] \o cleaned[i + 1]))}
    IN  IF singles # {} THEN Some(upper(cleaned[SetMin(singles)]))
        ELSE IF pairs # {}
            THEN Some(upper(cleaned[SetMin(pairs)]
                                \o cleaned[SetMin(pairs) + 1]))
        ELSE None
C8_FirstSingleThenFirstPair ==
    SymbolExtracted => symbol = ExpectedSymbolOf(CmdTokens, CmdKeywords)

\* a returned order whose symbol is a pair of tokens, from a command in
\* which an earlier pair that begins with a keyword would pass the length
\* and suffix test
C8_Witness ==
    /\ Returned
    /\ \E i \in 1..(Len(CmdTokens) - 1) :
          /\ symbol = Some(upper(clean_symbol_token(CmdTokens[i])
                                    \o clean_symbol_token(CmdTokens[i + 1])))
          /\ \E j \in 1..(i - 1) :
                /\ CmdKeywords[j] \in ORDER_KEYWORDS
                /\ HasLetter(clean_symbol_token(CmdTokens[j + 1]))
                /\ Qualifies(upper(clean_symbol_token(CmdTokens[j])
                                      \o clean_symbol_token(CmdTokens[j + 1])))

\* C9: for an accepted symbol detect_quote_asset returns a non-empty member
\* of the known suffixes that is a suffix of the symbol, the longest such
\* member; so a returned order always has a quote_asset.
C9_QuoteAssetIsLongestKnownSuffix ==
    /\ symbol # None =>
          LET quote_asset == detect_quote_asset(symbol[1])
          IN  /\ quote_asset # None
              /\ quote_asset[1] # <<>>
              /\ quote_asset[1] \in KNOWN_SYMBOL_SUFFIXES
              /\ HasSuffix(symbol[1], quote_asset[1])
              /\ \A suffix \in KNOWN_SYMBOL_SUFFIXES :
                    HasSuffix(symbol[1], suffix) =>
                        Len(suffix) <= Len(quote_asset[1])
    /\ Returned =>
          /\ result[1].quote_asset # None
          /\ HasSuffix(result[1].symbol, result[1].quote_asset[1])

\* a returned order whose symbol is itself a known suffix, five characters
\* long
C9_Witness ==
    /\ Returned
    /\ result[1].quote_asset = Some(result[1].symbol)
    /\ Len(result[1].symbol) = 5
----------------------------------------------------------------------------
(* main.py: the parser of the HTTP service                                 *)

\* main.py keeps its own, shorter vocabulary (lines 52-66); its tokens are
\* lowered but their accents are kept
main_SIDE_KEYWORDS ==
    Str("buy") :> "BUY" @@ Str("sell") :> "SELL"
        @@ Str("acheter") :> "BUY" @@ Str("vendre") :> "SELL"

main_ORDER_TYPE_KEYWORDS ==
    Str("market") :> "MARKET" @@ Str("marche") :> "MARKET"
        @@ Str("limit") :> "LIMIT" @@ Str("limite") :> "LIMIT"

main_ORDER_KEYWORDS ==
    DOMAIN main_SIDE_KEYWORDS \cup DOMAIN main_ORDER_TYPE_KEYWORDS

\* re.sub(r"[^A-Za-z0-9]", "", token)
main_clean(token) == SelectSeq(token, IsAsciiAlnum)

\* first loop of main.extract_symbol (lines 90-95), from position i
RECURSIVE main_single_token_pass(_, _)
main_single_token_pass(cleaned_tokens, i) ==
    IF i > Len(cleaned_tokens) THEN None
    ELSE LET candidate == upper(cleaned_tokens[i])
         IN  IF candidate = <<>> \/ lower(candidate) \in main_ORDER_KEYWORDS
             THEN main_single_token_pass(cleaned_tokens, i + 1)
             ELSE IF Len(candidate) >= 5 THEN Some(candidate)
             ELSE main_single_token_pass(cleaned_tokens, i + 1)

\* second loop of main.extract_symbol (lines 96-102), from position idx
RECURSIVE main_pair_pass(_, _)
main_pair_pass(cleaned_tokens, idx) ==
    IF idx > Len(cleaned_tokens) - 1 THEN None
    ELSE LET first == upper(cleaned_tokens[idx])
             second == upper(cleaned_tokens[idx + 1])
         IN  IF lower(first) \in main_ORDER_KEYWORDS
                    \/ lower(second) \in main_ORDER_KEYWORDS
             THEN main_pair_pass(cleaned_tokens, idx + 1)
             ELSE IF Len(first) \in 3..4 /\ Len(second) \in 3..4
                 THEN Some(first \o second)
             ELSE main_pair_pass(cleaned_tokens, idx + 1)

main_extract_symbol(tokens) ==
    LET cleaned_tokens == [i \in 1..Len(tokens) |-> main_clean(tokens[i])]
        single == main_single_token_pass(cleaned_tokens, 1)
    IN  IF single # None THEN single
        ELSE main_pair_pass(cleaned_tokens, 1)

\* int(digits) for a string of ASCII decimal digits
RECURSIVE StrToNat(_)
StrToNat(digits) ==
    IF digits = <<>> THEN 0
    ELSE 10 * StrToNat(SubSeq(digits, 1, Len(digits) - 1))
             + DigitVal(digits[Len(digits)])

AllDigits(s) == \A i \in 1..Len(s) : IsDigit(s[i])
NotUnderscore(c) == c # Ord("_")

\* str(int(digits)) of a run of decimal digits; "" for an empty run
int_str(digits) == lstrip_zeros(ascii_digits(digits))

\* An exponent of more than nine digits is far outside the range of the
\* context (lines 70 and 125-133 see only its sign): it is kept as BIG or
\* -BIG, on which the comparisons with zero and normalize() give what they
\* give on the exponent itself.
BIG == 1000000000
\* min(int(digits), BIG)
capped_value(digits) ==
    IF Len(int_str(digits)) > 9 THEN BIG ELSE StrToNat(int_str(digits))
\* the digits of 10^18 - 1 - int(digits), for at most 18 digits
complement18(digits) ==
    LET padded == Zeros(18 - Len(digits)) \o digits
    IN  [i \in 1..18 |-> DIGITS[10 - DigitVal(padded[i])]]

\* the exponent of the Decimal written with the exponent digits expdigits
\* (negative when expneg), fraclen digits after the point and ndigits
\* digits in its coefficient: None when the constructor refuses it, the
\* value being exact only with an exponent of at least MIN_ETINY
\* (-1999999999999999997) and an adjusted exponent of at most MAX_EMAX
\* (999999999999999999)
main_exponent(expneg, e, fraclen, ndigits) ==
    IF Len(e) <= 9
    THEN Some((IF expneg THEN 0 - StrToNat(e) ELSE StrToNat(e)) - fraclen)
    ELSE IF Len(e) >= 20 THEN None
    ELSE IF ~expneg
    THEN IF Len(e) <= 18
         THEN IF capped_value(complement18(e)) >= ndigits - fraclen - 1
              THEN Some(BIG) ELSE None
         ELSE IF Head(e) = Ord("1") /\ capped_value(Tail(e)) <= fraclen - ndigits
              THEN Some(BIG) ELSE None
    ELSE IF Len(e) <= 18 THEN Some(0 - BIG)
    ELSE IF Head(e) = Ord("1")
              /\ capped_value(complement18(Tail(e))) >= fraclen + 2
         THEN Some(0 - BIG) ELSE None

\* the finite Decimal of a coefficient and an exponent, None without exponent
main_finite(sign, coefficient, exponent) ==
    IF exponent = None THEN None
    ELSE Some([sign |-> sign, int |-> coefficient, exp |-> exponent[1],
               kind |-> "finite"])

\* the payload of a NaN: its digits without leading zeros, "" for zero
main_payload(digits) ==
    IF int_str(digits) = Str("0") THEN <<>> ELSE int_str(digits)

\* Decimal(token) of main.extract_numbers, where the whole token is the
\* literal: None when the constructor raises InvalidOperation, otherwise the
\* sign, coefficient and exponent that the decimal module keeps, the
\* exponent of an infinity, a NaN and a signalling NaN being kept aside as
\* the kind "F", "n" and "N".  The constructor strips whitespace, drops
\* underscores, reads letters in either case and every decimal digit.  The
\* literal is read in stages: sign, special values, exponent, integer and
\* fractional digits.
main_DecimalOfParts(sign, intpart, fracpart, has_exp, expneg, expdigits) ==
    IF /\ AllDigits(intpart)
       /\ AllDigits(fracpart)
       /\ intpart \o fracpart # <<>>
       /\ has_exp => (expdigits # <<>> /\ AllDigits(expdigits))
    THEN main_finite(sign, int_str(intpart \o fracpart),
                     main_exponent(expneg, int_str(expdigits), Len(fracpart),
                                   Len(int_str(intpart \o fracpart))))
    ELSE None

main_DecimalOfMantissa(sign, mant, dot, has_exp, exppart) ==
    main_DecimalOfParts(
        sign,
        IF dot = 0 THEN mant ELSE SubSeq(mant, 1, dot - 1),
        IF dot = 0 THEN <<>> ELSE SubSeq(mant, dot + 1, Len(mant)),
        has_exp,
        exppart # <<>> /\ Head(exppart) = Ord("-"),
        IF exppart # <<>> /\ Head(exppart) \in {Ord("+"), Ord("-")}
        THEN Tail(exppart) ELSE exppart)

main_DecimalOfNumber(sign, body, epos) ==
    IF epos = 0
    THEN main_DecimalOfMantissa(sign, body, IndexOf(body, Ord(".")), FALSE, <<>>)
    ELSE main_DecimalOfMantissa(sign, SubSeq(body, 1, epos - 1),
                                IndexOf(SubSeq(body, 1, epos - 1), Ord(".")),
                                TRUE, SubSeq(body, epos + 1, Len(body)))

main_DecimalOfBody(sign, body) ==
    IF body \in {Str("inf"), Str("infinity")}
    THEN Some([sign |-> sign, int |-> Str("0"), exp |-> 0, kind |-> "F"])
    ELSE IF Len(body) >= 3 /\ SubSeq(body, 1, 3) = Str("nan")
                /\ AllDigits(SubSeq(body, 4, Len(body)))
    THEN Some([sign |-> sign, int |-> main_payload(SubSeq(body, 4, Len(body))),
               exp |-> 0, kind |-> "n"])
    ELSE IF Len(body) >= 4 /\ SubSeq(body, 1, 4) = Str("snan")
                /\ AllDigits(SubSeq(body, 5, Len(body)))
    THEN Some([sign |-> sign, int |-> main_payload(SubSeq(body, 5, Len(body))),
               exp |-> 0, kind |-> "N"])
    ELSE main_DecimalOfNumber(sign, body, IndexOf(body, Ord("e")))

main_DecimalOfLower(t) ==
    IF t # <<>> /\ Head(t) \in {Ord("+"), Ord("-")}
    THEN main_DecimalOfBody(IF Head(t) = Ord("-") THEN 1 ELSE 0, Tail(t))
    ELSE main_DecimalOfBody(0, t)

main_Decimal(str) ==
    main_DecimalOfLower(ascii_lower(SelectSeq(strip(str), NotUnderscore)))

\* main.extract_numbers (lines 77-85), from token k
RECURSIVE main_extract_numbers(_, _)
main_extract_numbers(tokens, k) ==
    IF k > Len(tokens) THEN <<>>
    ELSE LET d == main_Decimal(replace_comma(tokens[k]))
         IN  d \o main_extract_numbers(tokens, k + 1)

\* "value <= 0" on a Decimal: a NaN makes the comparison raise
\* InvalidOperation, an infinity compares by its sign
main_CompareRaises(d) == d.kind \in {"n", "N"}
main_LeZero(d) ==
    IF d.kind = "F" THEN d.sign = 1
    ELSE LeZero([sign |-> d.sign, int |-> d.int, exp |-> d.exp])

\* main.decimal_to_str (lines 69-74), the same text as the parser's: the
\* string, or Overflow when value.normalize() raises it; it is applied to
\* values that compared greater than zero, so never to a NaN
main_decimal_to_str(value) ==
    IF value.kind = "F"
    THEN (IF value.sign = 1 THEN Str("-") ELSE <<>>) \o Str("Infinity")
    ELSE decimal_to_str([sign |-> value.sign, int |-> value.int,
                         exp |-> value.exp])

\* main.ParsedOrder (lines 39-45) as built at lines 136-143
main_ParsedOrder(sd, sym, otype, qty, pr) ==
    [side |-> sd,
     symbol |-> sym,
     order_type |-> otype,
     quantity |-> main_decimal_to_str(qty),
     price |-> IF pr = None THEN None ELSE Some(main_decimal_to_str(pr[1])),
     time_in_force |-> IF otype = "LIMIT" THEN Some("GTC") ELSE None]

CommandParsingError(message) ==
    [raised |-> "CommandParsingError", message |-> message]
InvalidOperation == [raised |-> "decimal.InvalidOperation"]
Returns(order) == [raised |-> "nothing", order |-> order]

\* main.decimal_to_str raises decimal.Overflow on the value
main_overflows(value) ==
    /\ value.kind = "finite"
    /\ overflows(normalize([sign |-> value.sign, int |-> value.int,
                            exp |-> value.exp]))

\* lines 136-143: the order, or the decimal.Overflow of a decimal_to_str
main_return(sd, sym, otype, qty, pr) ==
    IF \/ main_overflows(qty)
       \/ pr # None /\ main_overflows(pr[1])
    THEN Overflow
    ELSE Returns(main_ParsedOrder(sd, sym, otype, qty, pr))

\* main.parse_trade_command (lines 106-143): the order it returns or the
\* exception that leaves it.  The messages are those of the parser module.
main_parse_trade_command(cmd) ==
    LET tokens == split(cmd)
        lower_tokens == [i \in 1..Len(tokens) |-> lower(tokens[i])]
        sd == FirstInDict(lower_tokens, main_SIDE_KEYWORDS, 1)
        found == FirstInDict(lower_tokens, main_ORDER_TYPE_KEYWORDS, 1)
        otype == IF found = None THEN "MARKET" ELSE found[1]
        sym == main_extract_symbol(tokens)
        numbers == main_extract_numbers(tokens, 1)
    IN  IF sd = None THEN CommandParsingError(ERR_SIDE)
        ELSE IF sym = None THEN CommandParsingError(ERR_SYMBOL)
        ELSE IF numbers = <<>> THEN CommandParsingError(ERR_QUANTITY_MISSING)
        ELSE IF main_CompareRaises(numbers[1]) THEN InvalidOperation
        ELSE IF main_LeZero(numbers[1]) THEN CommandParsingError(ERR_QUANTITY)
        ELSE IF otype # "LIMIT"
            THEN main_return(sd[1], sym[1], otype, numbers[1], None)
        ELSE IF Len(numbers) < 2 THEN CommandParsingError(ERR_PRICE_MISSING)
        ELSE IF main_CompareRaises(numbers[2]) THEN InvalidOperation
        ELSE IF main_LeZero(numbers[2]) THEN CommandParsingError(ERR_PRICE)
        ELSE main_return(sd[1], sym[1], otype, numbers[1], Some(numbers[2]))

----------------------------------------------------------------------------
(* main.py: POST /orders                                                   *)

HTTPException(status_code, detail) ==
    [status_code |-> status_code, detail |-> detail]

\* The details of the HTTPException raised by place_order, written without
\* their diacritics, and the answers the framework gives by itself: 422
\* when the request model rejects the body, 500 when an exception other
\* than HTTPException leaves the handler.
ERR_EMPTY_COMMAND == "Le texte de commande ne peut pas etre vide."
ERR_LIMIT_PRICE_LOST == "Le prix de l'ordre limite est manquant apres l'analyse."
\* line 194: f"Erreur Binance : {exc.message}"
ERR_BINANCE(message) == "Erreur Binance : " \o message
ERR_UNEXPECTED == "Erreur inattendue lors de l'envoi de l'ordre."
INTERNAL_SERVER_ERROR == "Internal Server Error"

\* what client.create_order can do: return the answer of the exchange, or
\* raise one of the two exceptions of the binance package or any other
\* exception, each with a message
CreateOrderOutcomes ==
    {[raised |-> "nothing", message |-> "", response |-> Some(r)] :
        r \in {[orderId |-> 123], [orderId |-> 124]}}
    \cup [raised : {"BinanceAPIException", "BinanceRequestException",
                   "Exception"},
          message : {"Invalid symbol.", "Filter failure: LOT_SIZE"},
          response : {None}]

\* CommandRequest.command_not_empty (lines 32-36): a blank command never
\* reaches place_order
command_not_empty ==
    /\ pc = "validate"
    /\ IF strip(command) = <<>>
       THEN /\ response' = Some(HTTPException(422, ERR_EMPTY_COMMAND))
            /\ pc' = "responded"
       ELSE /\ pc' = "place_order"
            /\ UNCHANGED response
    /\ UNCHANGED <<command, testnet, parsed, client, order_payload, calls,
                   outcome>>
    /\ UNCHANGED parser_vars

\* place_order, lines 173-176
place_order_parse ==
    /\ pc = "place_order"
    /\ LET r == main_parse_trade_command(command)
       IN  IF r.raised = "CommandParsingError"
           THEN /\ response' = Some(HTTPException(400, r.message))
                /\ pc' = "responded"
                /\ UNCHANGED parsed
           ELSE IF r.raised # "nothing"
           THEN /\ response' = Some(HTTPException(500, INTERNAL_SERVER_ERROR))
                /\ pc' = "responded"
                /\ UNCHANGED parsed
           ELSE /\ parsed' = Some(r.order)
                /\ pc' = "create_client"
                /\ UNCHANGED response
    /\ UNCHANGED <<command, testnet, client, order_payload, calls, outcome>>
    /\ UNCHANGED parser_vars

\* place_order, line 178, and create_client (lines 146-152): get_settings
\* raises when the environment lacks the required keys, otherwise a client
\* for the requested network is built
create_client ==
    /\ pc = "create_client"
    /\ \E settings_valid \in BOOLEAN :
          IF settings_valid
          THEN /\ client' = Some([testnet |-> testnet])
               /\ pc' = "order_payload"
               /\ UNCHANGED response
          ELSE /\ response' = Some(HTTPException(500, INTERNAL_SERVER_ERROR))
               /\ pc' = "responded"
               /\ UNCHANGED client
    /\ UNCHANGED <<command, testnet, parsed, order_payload, calls, outcome>>
    /\ UNCHANGED parser_vars

\* place_order, lines 179-189
place_order_payload ==
    /\ pc = "order_payload"
    /\ LET base == [symbol |-> parsed[1].symbol,
                    side |-> parsed[1].side,
                    type |-> parsed[1].order_type,
                    quantity |-> parsed[1].quantity]
       IN  IF parsed[1].order_type = "LIMIT"
           THEN IF parsed[1].price = None
                THEN /\ response' =
                            Some(HTTPException(500, ERR_LIMIT_PRICE_LOST))
                     /\ pc' = "responded"
                     /\ UNCHANGED order_payload
                ELSE /\ order_payload' =
                            Some(base @@
                                 [timeInForce |->
                                      IF parsed[1].time_in_force = None
                                      THEN "GTC"
                                      ELSE parsed[1].time_in_force[1],
                                  price |-> parsed[1].price[1]])
                     /\ pc' = "create_order"
                     /\ UNCHANGED response
           ELSE /\ order_payload' = Some(base)
                /\ pc' = "create_order"
                /\ UNCHANGED response
    /\ UNCHANGED <<command, testnet, parsed, client, calls, outcome>>
    /\ UNCHANGED parser_vars

\* place_order, lines 191-196: client.create_order(**order_payload) returns
\* or raises; the handler's answer waits for the finally block
create_order ==
    /\ pc = "create_order"
    /\ \E o \in CreateOrderOutcomes :
          /\ outcome' = Some(o)
          /\ calls' = Append(calls, [method |-> "create_order",
                                     payload |-> order_payload,
                                     raised |-> o.raised # "nothing"])
    /\ pc' = "finally"
    /\ UNCHANGED <<command, testnet, parsed, client, order_payload, response>>
    /\ UNCHANGED parser_vars

\* place_order, lines 193-203: the finally block calls close_connection and
\* swallows what it raises, then the pending HTTPException of the except
\* clauses (lines 193-196) or the return of line 203 gives the answer
close_connection ==
    /\ pc = "finally"
    /\ \E close_raises \in BOOLEAN :
          calls' = Append(calls, [method |-> "close_connection",
                                  payload |-> None,
                                  raised |-> close_raises])
    /\ response' =
          IF outcome[1].raised = "nothing"
          THEN Some([status_code |-> 200,
                     parsed_order |-> parsed[1],
                     binance_response |-> outcome[1].response[1]])
          ELSE IF outcome[1].raised \in {"BinanceAPIException",
                                        "BinanceRequestException"}
          THEN Some(HTTPException(502, ERR_BINANCE(outcome[1].message)))
          ELSE Some(HTTPException(500, ERR_UNEXPECTED))
    /\ pc' = "responded"
    /\ UNCHANGED <<command, testnet, parsed, client, order_payload, outcome>>
    /\ UNCHANGED parser_vars

NextOrders ==
    \/ command_not_empty
    \/ place_order_parse
    \/ create_client
    \/ place_order_payload
    \/ create_order
    \/ close_connection

\* the state when the request arrives: the body is bound, nothing has run
RequestWith(commands) ==
    /\ command \in commands
    /\ testnet \in BOOLEAN
    /\ pc = "validate"
    /\ raw_tokens = <<>>
    /\ keyword_tokens = <<>>
    /\ side = None
    /\ order_type = "MARKET"
    /\ symbol = None
    /\ numbers_with_indices = <<>>
    /\ quantity = None
    /\ price = None
    /\ used_number_indices = {}
    /\ callback_value = None
    /\ activation_value = None
    /\ callback_pos = 0
    /\ activation_pos = 0
    /\ result = None
    /\ error = None
    /\ parsed = None
    /\ client = None
    /\ order_payload = None
    /\ calls = <<>>
    /\ outcome = None
    /\ response = None

\* Requests: blank commands, market, limit and trailing-stop commands in the
\* vocabulary of main.py and in that of the parser module, with a decimal
\* comma, an exponent, an exponent above Emax, an infinity, a NaN and the
\* Arabic-Indic digit three (1635) among the number tokens, and a tab (9)
MaxReqTokens == 2
TrailingTail ==
    << Str("0,25"), Str("btcusdt"), Str("trailing"), Str("0,5"),
       Str("activation"), Str("20000") >>
ReqPrefixes ==
    { <<>>,
      << Str("acheter"), Str("btcusdt") >>,
      << Str("achetez") >> \o TrailingTail,
      << Str("acheter") >> \o TrailingTail }
ReqPool ==
    { Str("2"), Str("0"), Str("1e3"), Str("nan"), Str("inf"), Str("limit"),
      Str("1e1000000"), <<9>>, <<1635>> }

InitOrders == RequestWith(CommandsFrom(ReqPrefixes, ReqPool, MaxReqTokens))
SpecOrders == InitOrders /\ [][NextOrders]_vars
----------------------------------------------------------------------------
(* Properties of POST /orders                                              *)

Responded == pc = "responded"
IsCreateOrder(call) == call.method = "create_order"
IsCloseConnection(call) == call.method = "close_connection"
Methods == [i \in 1..Len(calls) |-> calls[i].method]

\* a valid trailing-stop command, read with the vocabulary of the parser
\* module: a side keyword, a symbol, a trailing-order keyword and at least
\* two numbers, the quantity and the callback rate, all of them positive
TrailingStopCommand ==
    /\ HasKeywordIn(TRAILING_KEYWORDS)
    /\ ~NoSide
    /\ ~NoSymbol
    /\ Len(CmdNumbers) >= 2
    /\ \A p \in 1..Len(CmdNumbers) : ValueGtZero(CmdNumbers[p].value)

\* the exchange side of the request failed: no client could be built, or
\* create_order raised
ExchangeFailed ==
    \/ parsed # None /\ client = None
    \/ outcome # None /\ outcome[1].raised # "nothing"

\* C11: POST /orders with a valid trailing-stop command, the exchange
\* accepting the order, answers 200 and calls create_order exactly once,
\* with the symbol, side and quantity of the parsed order, the type
\* TRAILING_STOP_MARKET, a callbackRate (and an activationPrice when the
\* command gives one) and neither a price nor a timeInForce key.
C11_TrailingOrderIsForwarded ==
    (Responded /\ TrailingStopCommand /\ ~ExchangeFailed) =>
        /\ response[1].status_code = 200
        /\ Len(SelectSeq(calls, IsCreateOrder)) = 1
        /\ LET sent == SelectSeq(calls, IsCreateOrder)[1].payload[1]
           IN  /\ {"symbol", "side", "type", "quantity", "callbackRate"}
                      \subseteq DOMAIN sent
               /\ HasKeywordIn(ACTIVATION_PRICE_KEYWORDS) /\ Len(CmdNumbers) >= 3
                      => "activationPrice" \in DOMAIN sent
               /\ "price" \notin DOMAIN sent
               /\ "timeInForce" \notin DOMAIN sent
               /\ sent.type = "TRAILING_STOP_MARKET"
               /\ sent.symbol = parsed[1].symbol
               /\ sent.side = parsed[1].side
               /\ sent.quantity = parsed[1].quantity
               /\ sent.quantity = decimal_to_str(CmdNumbers[1].value)

\* the command reached place_order and parse_trade_command returned no order
ParsingFailed == Responded /\ split(command) # <<>> /\ parsed = None

\* the answer that the outcome of create_order alone decides: the parsed
\* order with the answer of the exchange (200), the message of a Binance
\* error (502), or the fixed detail of any other error (500)
AnswerOfOutcome ==
    IF outcome[1].raised = "nothing"
    THEN [status_code |-> 200,
          parsed_order |-> parsed[1],
          binance_response |-> outcome[1].response[1]]
    ELSE IF outcome[1].raised \in {"BinanceAPIException",
                                  "BinanceRequestException"}
    THEN [status_code |-> 502,
          detail |-> "Erreur Binance : " \o outcome[1].message]
    ELSE [status_code |-> 500,
          detail |-> "Erreur inattendue lors de l'envoi de l'ordre."]

\* C12: once place_order has answered, a command that failed parsing has
\* the answer 400, no client and no call on the exchange; and when a client
\* was created, the calls on it are one create_order followed by one
\* close_connection, the answer being 200 when create_order returned, 502
\* when it raised a Binance error and 500 when it raised anything else,
\* and the whole answer, body included, is the one the outcome of
\* create_order decides, whether close_connection raised or not.
C12_ParseFailureIs400AndClientIsClosed ==
    /\ ParsingFailed =>
          /\ response[1].status_code = 400
          /\ client = None
          /\ calls = <<>>
    /\ (Responded /\ client # None) =>
          /\ Methods = <<"create_order", "close_connection">>
          /\ response[1].status_code =
                 IF outcome[1].raised = "nothing" THEN 200
                 ELSE IF outcome[1].raised = "Exception" THEN 500
                 ELSE 502
          /\ response[1] = AnswerOfOutcome

====
